---- MODULE Spec2Model ----
(***************************************************************************)
(* A model of hypothesis.stateful: the rule based state machine, the       *)
(* seeded run record (StateMachineRunner), its replay, its canonical       *)
(* serialized form and its shrink moves (StateMachineSearchStrategy).      *)
(***************************************************************************)
EXTENDS Integers, Sequences, FiniteSets, TLC

VARIABLES
    cls,        \* the rule list of the state machine class under test
    cur,        \* the StateMachineRunner the driver currently holds
    given,      \* the runner as it was when the first replay started
    orig,       \* the runner the chain of moves started from
    last,       \* the last operation applied to cur
    run,        \* the replay in progress: the frame of StateMachineRunner.run
    first,      \* the finished first replay, kept while the second one runs
    verdict,    \* what is_breaking_run returned or raised
    data,       \* the basic data handed to from_basic
    parsed,     \* what from_basic returned or raised
    heap,       \* the record lists of the runner objects of a shrink pass
    registry    \* the rule lists the class keeps per concrete type

vars == <<cls, cur, given, orig, last, run, first, verdict, data, parsed, heap, registry>>

-----------------------------------------------------------------------------
(* Bounds of the model.                                                     *)

\* the largest configured step count of a replayed runner
MaxSteps == 3
\* the longest stored record a replay starts from
MaxRecord == 2
\* parameter and template seeds are drawn from 0 .. SeedSpace - 1
SeedSpace == 2
\* getrandbits(64) yields a value of 0 .. RandSpace - 1
RandSpace == 5
\* the configured step count of the long runs the bulk discard needs
LongRun == 10
\* the candidates yielded in a shrink pass whose lists are followed
MaxCandidates == 2

(* Constants of the program.                                                *)

\* assert 0 <= n_steps <= 1000000
MaxNSteps == 1000000
\* Settings.default.stateful_step_count
DefaultStepCount == 50
\* random_discards: if live < 10: return
MinLive == 10
\* delete_elements: if deletes >= 10: break
MaxDeletes == 10
\* random_discards: for k in hrange(1, 8)
DiscardLevels == 7
\* random_discards: for _ in hrange(10)
DiscardTrials == 10

-----------------------------------------------------------------------------
(* Basic data: what to_basic produces and from_basic consumes (JSON).       *)

JInt(n) == [kind |-> "int", val |-> n, items |-> <<>>]

JNull == [kind |-> "null", val |-> 0, items |-> <<>>]

JStr == [kind |-> "str", val |-> 0, items |-> <<>>]

JList(s) == [kind |-> "list", val |-> 0, items |-> s]

\* check_data_type(typ, data): raises BadData unless data is of the type
check_data_type(typ, d) == d.kind = typ

\* check_length(n, data): raises BadData unless len(data) == n
check_length(n, d) == Len(d.items) = n

-----------------------------------------------------------------------------
(* Rules and the classes under test.                                        *)

\* Rule = namedtuple('Rule', ('targets', 'function', 'arguments')); the
\* arguments kept are the bundle typed ones, by the bundle's name.
Rule(targets, function, arguments) ==
    [targets |-> targets, function |-> function, arguments |-> arguments]

\* push: no arguments, target bundle b, returns the next negative integer
push == Rule(<<"b">>, "push", <<>>)

\* pop: one value of bundle b, fails when the value is negative
pop == Rule(<<>>, "pop", <<"b">>)

\* peek: one value of bundle b, never fails
peek == Rule(<<>>, "peek", <<"b">>)

\* reject: no arguments, the step turns out inapplicable (assume(False))
reject == Rule(<<>>, "reject", <<>>)

\* move: one value of bundle b, target bundle c
move == Rule(<<"c">>, "move", <<"b">>)

\* both: one value of bundle b and one of bundle c, no target
both == Rule(<<>>, "both", <<"b", "c">>)

\* twice: no arguments, declared with targets=("b",) and target="b"
twice == Rule(<<"b", "b">>, "twice", <<>>)

\* the rule lists rules() returns for the classes under test, in member order
Classes ==
    { <<pop, push>>, <<peek, push>>, <<push, reject>>, <<pop>>, <<>> }

-----------------------------------------------------------------------------
(* The strategies steps() builds, and their canonical form.                 *)
(* A strategy is the list of its alternatives, one per eligible rule: the  *)
(* rule and, per bundle argument, the elements sampled from.  One           *)
(* alternative is that tuple strategy itself, several are a one-of.         *)

NoStrategy == <<>>

Alternative(rule, elements) == [rule |-> rule, elements |-> elements]

\* a template: the alternative chosen (1-based) and, per bundle argument,
\* the index sampled (0-based, as SimpleSampledFromStrategy draws it)
Template(alt, args) == [alt |-> alt, args |-> args]

NoTemplate == Template(0, <<>>)

\* TupleStrategy((JustStrategy(rule), FixedKeysDictStrategy(args))).to_basic
tuple_to_basic(args) ==
    JList(<< JNull, JList([k \in 1..Len(args) |-> JInt(args[k])]) >>)

\* strategy.to_basic(template)
strategy_to_basic(strategy, t) ==
    IF Len(strategy) = 1
    THEN tuple_to_basic(t.args)
    ELSE JList(<< JInt(t.alt - 1), tuple_to_basic(t.args) >>)

\* TupleStrategy(...).from_basic(data) for one alternative: TRUE when the
\* data is [None, [i1, ...]] with every index in range of its elements
tuple_accepts(alt, d) ==
    /\ check_data_type("list", d)
    /\ check_length(2, d)
    /\ d.items[1].kind = "null"
    /\ check_data_type("list", d.items[2])
    /\ check_length(Len(alt.elements), d.items[2])
    /\ \A k \in 1..Len(alt.elements) :
          /\ check_data_type("int", d.items[2].items[k])
          /\ d.items[2].items[k].val >= 0
          /\ d.items[2].items[k].val < Len(alt.elements[k])

tuple_args(d) == [k \in 1..Len(d.items[2].items) |-> d.items[2].items[k].val]

\* strategy.from_basic(data): the template, or BadData
strategy_from_basic(strategy, d) ==
    IF Len(strategy) = 1
    THEN IF tuple_accepts(strategy[1], d)
         THEN [ok |-> TRUE, template |-> Template(1, tuple_args(d))]
         ELSE [ok |-> FALSE, template |-> NoTemplate]
    ELSE IF /\ check_data_type("list", d)
            /\ check_length(2, d)
            /\ check_data_type("int", d.items[1])
            /\ d.items[1].val >= 0
            /\ d.items[1].val < Len(strategy)
            /\ tuple_accepts(strategy[d.items[1].val + 1], d.items[2])
         THEN [ok |-> TRUE,
               template |-> Template(d.items[1].val + 1, tuple_args(d.items[2]))]
         ELSE [ok |-> FALSE, template |-> NoTemplate]

\* strategy.draw_parameter(Random(seed)): the parameter keeps the seed
draw_parameter(strategy, seed) == seed

\* strategy.draw_template(BuildContext(Random(seed)), parameter): an
\* alternative and an index per bundle argument, fixed by the two seeds
draw_template(strategy, seed, parameter) ==
    LET alt == ((seed + parameter) % Len(strategy)) + 1
    IN  Template(alt,
            [k \in 1..Len(strategy[alt].elements) |->
                (seed + k) % Len(strategy[alt].elements[k])])

\* strategy.reify(template): the step, a rule and its argument references
reify(strategy, t) ==
    [rule |-> strategy[t.alt].rule,
     data |-> [k \in 1..Len(t.args) |-> strategy[t.alt].elements[k][t.args[k] + 1]]]

NoStep == [rule |-> Rule(<<>>, "", <<>>), data |-> <<>>]

\* the shrink moves the strategy offers for a template: a sampled index is
\* replaced by a smaller one
strategy_simplify(strategy, t) ==
    UNION { { Template(t.alt, [t.args EXCEPT ![k] = j]) : j \in 0..(t.args[k] - 1) } :
            k \in 1..Len(t.args) }

-----------------------------------------------------------------------------
(* RuleBasedStateMachine: the instance and its operations.                  *)

BundleNames == {"b", "c"}

\* RuleBasedStateMachine.__init__: bundles = {}, name_counter = 1,
\* names_to_values = {}; counter is the state of the class under test and
\* step_count the attribute print_step creates
new_machine(rules) ==
    [rules |-> rules,
     keys |-> {},
     bundles |-> [b \in BundleNames |-> <<>>],
     name_counter |-> 1,
     names_to_values |-> <<>>,
     step_count |-> 0,
     counter |-> 0]

\* the concrete types of the process
Types == {"A", "B"}

\* the rules inspect.getmembers finds marked on the members of a type, in
\* member order
members(T) == IF T = "A" THEN <<pop, push>> ELSE <<peek>>

\* _rules_per_class and _base_rules_per_class as the module is loaded: no
\* key; cached and pending are the keys, scans counts the scans of rules()
NoRegistry ==
    [cached |-> {},
     rules_per_class |-> [T \in Types |-> <<>>],
     pending |-> {},
     base_rules_per_class |-> [T \in Types |-> <<>>],
     scans |-> [T \in Types |-> 0]]

\* cls.define_rule(targets, function, arguments): the rule is appended to
\* the cached list of the type when there is one, and otherwise to its list
\* of rules defined so far
define_rule(reg, T, r) ==
    IF T \in reg.cached
    THEN [reg EXCEPT !.rules_per_class[T] = Append(@, r)]
    ELSE [reg EXCEPT !.pending = @ \cup {T},
                     !.base_rules_per_class[T] = Append(@, r)]

RECURSIVE define_members(_, _, _)
\* the loop of rules() over the marked members
define_members(reg, T, found) ==
    IF found = <<>> THEN reg
    ELSE define_members(define_rule(reg, T, Head(found)), T, Tail(found))

\* a bug: the cache is not looked at, every access scans
class_rules_rescans(reg, T) ==
    LET scanned == define_members(reg, T, members(T))
        built == IF T \in scanned.pending \/ T \in scanned.cached
                 THEN scanned.rules_per_class[T] \o scanned.base_rules_per_class[T]
                 ELSE <<>>
    IN  [registry |-> [scanned EXCEPT
                          !.cached = @ \cup {T},
                          !.rules_per_class[T] = built,
                          !.pending = @ \ {T},
                          !.base_rules_per_class[T] = <<>>,
                          !.scans[T] = @ + 1],
         result |-> built]

\* cls.rules(): the cached list, or on the first access the list built from
\* the rules defined so far and the marked members, which is then cached
class_rules(reg, T) ==
    IF T \in reg.cached
    THEN [registry |-> reg, result |-> reg.rules_per_class[T]]
    ELSE LET scanned == define_members(reg, T, members(T))
             built == IF T \in scanned.pending
                      THEN scanned.base_rules_per_class[T] ELSE <<>>
         IN  [registry |-> [scanned EXCEPT
                               !.cached = @ \cup {T},
                               !.rules_per_class[T] = built,
                               !.pending = @ \ {T},
                               !.base_rules_per_class[T] = <<>>,
                               !.scans[T] = @ + 1],
              result |-> built]

\* the constructor raises InvalidDefinition when the class declares no rule
init_raises(rules) == rules = <<>>

\* the object before __init__ has assigned anything: no bundles, no name
\* counter, no values
bare_instance(rules) ==
    [new_machine(rules) EXCEPT !.name_counter = 0]

\* a bug: the attributes are assigned before the rules are looked at
construct_assigns_first(rules) ==
    [exc |-> IF rules = <<>> THEN "InvalidDefinition" ELSE "none",
     machine |-> new_machine(rules)]

\* RuleBasedStateMachine.__init__: the exception raised and the object
construct(rules) ==
    IF init_raises(rules)
    THEN [exc |-> "InvalidDefinition", machine |-> bare_instance(rules)]
    ELSE [exc |-> "none", machine |-> new_machine(rules)]

\* a bug: only the first bundle argument of the rule is looked at
first_empty_first_only(m, rule) ==
    IF rule.arguments # <<>> /\ m.bundles[rule.arguments[1]] = <<>> THEN 1 ELSE 0

\* the position of the first bundle argument of the rule whose bundle is
\* empty, 0 when there is none (the scan of steps() breaks there)
first_empty(m, rule) ==
    LET empty == { k \in 1..Len(rule.arguments) : m.bundles[rule.arguments[k]] = <<>> }
    IN  IF empty = {} THEN 0 ELSE CHOOSE k \in empty : \A j \in empty : k <= j

\* the bundles self.bundle(name) creates while steps() scans the rule
touched(m, rule) ==
    LET fe == first_empty(m, rule)
    IN  { rule.arguments[k] :
            k \in 1..(IF fe = 0 THEN Len(rule.arguments) ELSE fe) }

\* the candidate strategies of steps(): one per rule whose bundle arguments
\* all hold a value
candidates(m) ==
    LET valid(rule) == first_empty(m, rule) = 0
        eligible == SelectSeq(m.rules, valid)
    IN  [k \in 1..Len(eligible) |->
            Alternative(eligible[k],
                [a \in 1..Len(eligible[k].arguments) |->
                    m.bundles[eligible[k].arguments[a]]])]

\* RuleBasedStateMachine.steps(): the strategy, or InvalidDefinition; the
\* bundles looked at now exist
steps(m) ==
    [raised |-> candidates(m) = <<>>,
     strategy |-> candidates(m),
     machine |-> [m EXCEPT !.keys =
                    @ \cup UNION { touched(m, m.rules[k]) : k \in 1..Len(m.rules) }]]

\* the exception rule.function raises for these argument values, if any
function_raises(rule, values) ==
    CASE rule.function = "pop" /\ values[1] < 0 -> "AssertionError"
      [] rule.function = "reject" -> "UnsatisfiedAssumption"
      [] OTHER -> "none"

RECURSIVE append_to_front(_, _, _)
\* a bug: the reference is inserted at the front of the bundle
append_to_front(bundles, targets, name) ==
    IF targets = <<>> THEN bundles
    ELSE append_to_front([bundles EXCEPT ![Head(targets)] = <<name>> \o @],
                         Tail(targets), name)

RECURSIVE append_to(_, _, _)
\* for target in rule.targets: self.bundle(target).append(VarReference(name))
append_to(bundles, targets, name) ==
    IF targets = <<>> THEN bundles
    ELSE append_to([bundles EXCEPT ![Head(targets)] = Append(@, name)],
                   Tail(targets), name)

\* a bug: a name is allocated for the result of every rule
execute_step_names_all(m, step) ==
    LET values == [k \in 1..Len(step.data) |-> m.names_to_values[step.data[k]]]
        exc == function_raises(step.rule, values)
        called == IF step.rule.function = "push"
                  THEN [m EXCEPT !.counter = @ - 1] ELSE m
        result == IF step.rule.function = "push" THEN called.counter ELSE 0
        name == called.name_counter
    IN  IF exc # "none" THEN [exc |-> exc, machine |-> m]
        ELSE [exc |-> "none",
              machine |-> [called EXCEPT
                  !.name_counter = @ + 1,
                  !.names_to_values =
                      IF name = Len(@) + 1 THEN Append(@, result)
                      ELSE [@ EXCEPT ![name] = result],
                  !.keys = @ \cup { step.rule.targets[k] : k \in 1..Len(step.rule.targets) },
                  !.bundles = append_to(@, step.rule.targets, name)]]

\* RuleBasedStateMachine.execute_step(step): the exception raised and the
\* instance afterwards
execute_step(m, step) ==
    LET values == [k \in 1..Len(step.data) |-> m.names_to_values[step.data[k]]]
        exc == function_raises(step.rule, values)
        called == IF step.rule.function = "push"
                  THEN [m EXCEPT !.counter = @ - 1] ELSE m
        result == IF step.rule.function = "push" THEN called.counter ELSE 0
        name == called.name_counter
    IN  IF exc # "none" THEN [exc |-> exc, machine |-> m]
        ELSE IF step.rule.targets = <<>> THEN [exc |-> "none", machine |-> called]
        ELSE [exc |-> "none",
              machine |-> [called EXCEPT
                  !.name_counter = @ + 1,
                  !.names_to_values =
                      IF name = Len(@) + 1 THEN Append(@, result)
                      ELSE [@ EXCEPT ![name] = result],
                  !.keys = @ \cup { step.rule.targets[k] : k \in 1..Len(step.rule.targets) },
                  !.bundles = append_to(@, step.rule.targets, name)]]

\* a bug: the counter raised is not stored on the instance
print_step_keeps_count(m, step, fails_at) ==
    [exc |-> IF m.step_count + 1 = fails_at THEN "ReportError" ELSE "none",
     machine |-> m]

\* print_step(step): the counter is raised, then report() is called; the
\* installed reporter raises at report number fails_at
print_step(m, step, fails_at) ==
    [exc |-> IF m.step_count + 1 = fails_at THEN "ReportError" ELSE "none",
     machine |-> [m EXCEPT !.step_count = @ + 1]]

-----------------------------------------------------------------------------
(* StateMachineRunner: the run record.                                      *)

\* the k-th (0-based) value of Random(starting).getrandbits(64), k = 0, 1, ...
rand_bits(starting, k) == (starting * 2 + k * 3 + 1) % RandSpace

\* a bug: the list is one value short
seeds_one_short(starting, n_steps) ==
    IF n_steps <= 1 THEN [seed |-> 0, len |-> 0]
    ELSE [seed |-> starting, len |-> n_steps - 1]

\* seeds(starting, n_steps): the list of the first n_steps values of the
\* generator seeded with starting, kept as the pair that determines it
seeds(starting, n_steps) ==
    IF n_steps = 0 THEN [seed |-> 0, len |-> 0]
    ELSE [seed |-> starting, len |-> n_steps]

\* templates=None
NoTemplates == [seed |-> 0, len |-> 0]

\* templates[i]
templates_at(templates, i) == rand_bits(templates.seed, i)

\* the sentinel marking an entry as deleted
TOMBSTONE == [tomb |-> TRUE, strategy |-> NoStrategy, data |-> JNull]

\* a record entry (strategy, data); strategy is None after deserialization
Entry(strategy, d) == [tomb |-> FALSE, strategy |-> strategy, data |-> d]

\* StateMachineRunner.__init__
StateMachineRunner(parameter_seed, template_seed, n_steps, record, templates) ==
    [parameter_seed |-> parameter_seed,
     template_seed |-> template_seed,
     n_steps |-> n_steps,
     templates |-> IF templates.len > 0 THEN templates
                   ELSE seeds(template_seed, n_steps),
     record |-> record]

\* the assertions of StateMachineRunner.__init__
runner_asserts(r) ==
    /\ 0 <= r.n_steps
    /\ r.n_steps <= MaxNSteps
    /\ r.templates.len >= r.n_steps

-----------------------------------------------------------------------------
(* StateMachineRunner.run: one pass of the loop, and the finally clause.    *)

Event(ev, i, step, a, b) == [ev |-> ev, i |-> i, step |-> step, a |-> a, b |-> b]

\* the frame of run(state_machine, print_steps) as the loop is entered
new_frame(machine, print_steps, fails_at) ==
    [pc |-> "loop", i |-> 0, machine |-> machine, print_steps |-> print_steps,
     fails_at |-> fails_at, exc |-> "none", events |-> <<>>]

NoFrame == [new_frame(new_machine(<<>>), FALSE, 0) EXCEPT !.pc = "idle"]

\* a bug: the exception leaves run() without passing the finally clause
raised_past_finally(f, machine, exc, events) ==
    [f EXCEPT !.pc = "done", !.machine = machine, !.exc = exc, !.events = events]

\* the frame after an exception left the loop
raised(f, machine, exc, events) ==
    [f EXCEPT !.pc = "finally", !.machine = machine, !.exc = exc, !.events = events]

\* a bug: a tombstone is not recognised
is_tombstone_never(r, i) == FALSE

\* if self.record[i] is TOMBSTONE: continue
is_tombstone(r, i) == i < Len(r.record) /\ r.record[i + 1] = TOMBSTONE

\* a bug: the data read from the record is stored, not the template drawn
new_record_stale(strategy, template, r, i) ==
    Entry(strategy,
          IF i < Len(r.record) THEN r.record[i + 1].data
          ELSE IF r.record # <<>> THEN r.record[Len(r.record)].data
          ELSE JNull)

\* new_record = (strategy, strategy.to_basic(template))
new_record(strategy, template, r, i) ==
    Entry(strategy, strategy_to_basic(strategy, template))

\* a bug: the new entry is always appended
store_appends(record, i, entry) == Append(record, entry)

\* self.record[i] = new_record, or self.record.append(new_record)
store(record, i, entry) ==
    IF i < Len(record) THEN [record EXCEPT ![i + 1] = entry]
    ELSE Append(record, entry)

\* a bug: the seed is addressed by the number of live entries before i
fresh_seeds_compacted(r, i) ==
    << r.parameter_seed,
       templates_at(r.templates,
           i - Cardinality({ k \in 1..Len(r.record) : k <= i /\ r.record[k] = TOMBSTONE })) >>

\* the seeds of a fresh draw at index i: Random(self.parameter_seed) for the
\* parameter, Random(self.templates[i]) for the template
fresh_seeds(r, i) == << r.parameter_seed, templates_at(r.templates, i) >>

\* state_machine.execute_step(value) has been called: its exception leaves
\* the loop, otherwise the loop goes on to the next index
pass_executed(r, f, events, value, ex) ==
    LET ev3 == Append(events, Event("exec", f.i, value, 0, 0))
    IN  IF ex.exc # "none"
        THEN [runner |-> r, frame |-> raised(f, ex.machine, ex.exc, ev3)]
        ELSE [runner |-> r,
              frame |-> [f EXCEPT !.i = f.i + 1, !.machine = ex.machine, !.events = ev3]]

\* state_machine.print_step(value) has been called: its exception leaves the
\* loop, otherwise the step is executed
pass_printed(r, f, events, value, pr) ==
    LET ev2 == Append(events, Event("print", f.i, value, pr.machine.step_count, 0))
    IN  IF pr.exc # "none"
        THEN [runner |-> r, frame |-> raised(f, pr.machine, pr.exc, ev2)]
        ELSE pass_executed(r, f, ev2, value, execute_step(pr.machine, value))

\* the record holds the new entry and the template is reified: the step is
\* printed when print_steps is set, and executed
pass_reified(r, f, machine, events, value) ==
    IF f.print_steps
    THEN pass_printed(r, f, events, value, print_step(machine, value, f.fails_at))
    ELSE pass_executed(r, f, events, value, execute_step(machine, value))

\* the template is set: the new entry is stored and the template reified
pass_template(r, f, st, events, template) ==
    pass_reified(
        [r EXCEPT !.record = store(@, f.i, new_record(st.strategy, template, r, f.i))],
        f, st.machine, events, reify(st.strategy, template))

\* a bug: BadData for a stored entry leaves the loop
pass_read_raises(r, f, st, events, read) ==
    IF read.ok THEN pass_template(r, f, st, events, read.template)
    ELSE IF f.i < Len(r.record)
    THEN [runner |-> r, frame |-> raised(f, st.machine, "BadData", events)]
    ELSE pass_template(r, f, st,
            Append(events, Event("draw", f.i, NoStep, fresh_seeds(r, f.i)[1],
                                 fresh_seeds(r, f.i)[2])),
            draw_template(st.strategy, fresh_seeds(r, f.i)[2],
                          draw_parameter(st.strategy, fresh_seeds(r, f.i)[1])))

\* the entry at the index has been read, if there is one: the template is
\* the one read, or is drawn afresh when there is none or it was BadData
pass_read(r, f, st, events, read) ==
    IF read.ok THEN pass_template(r, f, st, events, read.template)
    ELSE pass_template(r, f, st,
            Append(events, Event("draw", f.i, NoStep, fresh_seeds(r, f.i)[1],
                                 fresh_seeds(r, f.i)[2])),
            draw_template(st.strategy, fresh_seeds(r, f.i)[2],
                          draw_parameter(st.strategy, fresh_seeds(r, f.i)[1])))

\* a bug: when steps() has nothing to offer the index is passed over
pass_steps_skips(r, f, st, events) ==
    IF st.raised \/ is_tombstone(r, f.i)
    THEN [runner |-> r,
          frame |-> [f EXCEPT !.i = f.i + 1, !.machine = st.machine, !.events = events]]
    ELSE pass_read(r, f, st, events,
            IF f.i < Len(r.record)
            THEN strategy_from_basic(st.strategy, r.record[f.i + 1].data)
            ELSE [ok |-> FALSE, template |-> NoTemplate])

\* steps() has been called: InvalidDefinition leaves the loop, a tombstone
\* ends the pass, otherwise the entry at the index is read
pass_steps(r, f, st, events) ==
    IF st.raised
    THEN [runner |-> r, frame |-> raised(f, st.machine, "InvalidDefinition", events)]
    ELSE IF is_tombstone(r, f.i)
    THEN [runner |-> r,
          frame |-> [f EXCEPT !.i = f.i + 1, !.machine = st.machine, !.events = events]]
    ELSE pass_read(r, f, st, events,
            IF f.i < Len(r.record)
            THEN strategy_from_basic(st.strategy, r.record[f.i + 1].data)
            ELSE [ok |-> FALSE, template |-> NoTemplate])

\* the body of the loop for index f.i < r.n_steps: the runner and the frame
\* after it
loop_pass(r, f) ==
    pass_steps(r, f, steps(f.machine),
               Append(f.events, Event("steps", f.i, NoStep, 0, 0)))

\* the loop has run out of indices
loop_exit(f) == [f EXCEPT !.pc = "finally"]

\* finally: state_machine.teardown()
teardown(f) ==
    [f EXCEPT !.pc = "done",
              !.events = Append(@, Event("teardown", f.i, NoStep, 0, 0))]

RECURSIVE run_all(_, _)
\* run() from frame f to its end: the runner and the frame when it returns
\* or raises
run_all(r, f) ==
    IF f.pc = "done" THEN [runner |-> r, frame |-> f]
    ELSE IF f.pc = "finally" THEN run_all(r, teardown(f))
    ELSE IF f.i >= r.n_steps THEN run_all(r, loop_exit(f))
    ELSE LET p == loop_pass(r, f) IN run_all(p.runner, p.frame)

-----------------------------------------------------------------------------
(* StateMachineSearchStrategy: the canonical form of a runner.              *)

\* produce_template(context, parameter_value) with program_size steps
produce_template(parameter_seed, template_seed, program_size) ==
    StateMachineRunner(parameter_seed, template_seed, program_size, <<>>, NoTemplates)

\* a bug: the payload is stored bare, not wrapped in a list of its own
to_basic_unwrapped(template) ==
    JList(<< JInt(template.parameter_seed),
             JInt(template.template_seed),
             JInt(template.n_steps),
             JList([k \in 1..Len(template.record) |->
                      IF template.record[k] # TOMBSTONE
                      THEN template.record[k].data
                      ELSE JNull]) >>)

\* to_basic(template)
to_basic(template) ==
    JList(<< JInt(template.parameter_seed),
             JInt(template.template_seed),
             JInt(template.n_steps),
             JList([k \in 1..Len(template.record) |->
                      IF template.record[k] # TOMBSTONE
                      THEN JList(<< template.record[k].data >>)
                      ELSE JNull]) >>)

NoRunner == StateMachineRunner(0, 0, 0, <<>>, NoTemplates)

\* no runner object and no list
NoHeap == [lists |-> <<>>, objs |-> <<>>, replayed |-> 0]

BadData == [outcome |-> "BadData", runner |-> NoRunner]

\* from_basic has not been called
NotParsed == [outcome |-> "none", runner |-> NoRunner]

\* the loop of from_basic over data[3]: every element is None or a list of
\* length 1
steps_accepted(d) ==
    \A k \in 1..Len(d.items) :
        \/ d.items[k].kind = "null"
        \/ check_data_type("list", d.items[k]) /\ check_length(1, d.items[k])

\* the type and length checks from_basic opens with
header_accepted(d) ==
    /\ check_data_type("list", d)
    /\ check_length(4, d)
    /\ check_data_type("int", d.items[1])
    /\ check_data_type("int", d.items[2])
    /\ check_data_type("int", d.items[3])
    /\ check_data_type("list", d.items[4])

\* a bug: a None of the stored steps is dropped instead of read as TOMBSTONE
runner_of_compacted(d) ==
    LET kept == SelectSeq(d.items[4].items, LAMBDA x : x.kind # "null")
    IN  StateMachineRunner(
            d.items[1].val, d.items[2].val, d.items[3].val,
            [k \in 1..Len(kept) |-> Entry(NoStrategy, kept[k].items[1])],
            NoTemplates)

\* the runner from_basic builds of accepted data
runner_of(d) ==
    StateMachineRunner(
        d.items[1].val, d.items[2].val, d.items[3].val,
        [k \in 1..Len(d.items[4].items) |->
            IF d.items[4].items[k].kind = "null" THEN TOMBSTONE
            ELSE Entry(NoStrategy, d.items[4].items[k].items[1])],
        NoTemplates)

\* a bug: the step count is checked against the ceiling of the constructor
\* only, not against 1000 times the default step count
from_basic_no_ceiling(d) ==
    IF ~ header_accepted(d) THEN BadData
    ELSE IF d.items[3].val < 0 THEN BadData
    ELSE IF ~ steps_accepted(d.items[4]) THEN BadData
    ELSE IF runner_asserts(runner_of(d)) THEN [outcome |-> "ok", runner |-> runner_of(d)]
    ELSE [outcome |-> "AssertionError", runner |-> NoRunner]

\* from_basic(data): the runner, or BadData (or the assertion of the
\* constructor failing)
from_basic(d) ==
    IF ~ header_accepted(d) THEN BadData
    ELSE IF d.items[3].val < 0 THEN BadData
    ELSE IF d.items[3].val > DefaultStepCount * 1000 THEN BadData
    ELSE IF ~ steps_accepted(d.items[4]) THEN BadData
    ELSE IF runner_asserts(runner_of(d)) THEN [outcome |-> "ok", runner |-> runner_of(d)]
    ELSE [outcome |-> "AssertionError", runner |-> NoRunner]

-----------------------------------------------------------------------------
(* StateMachineSearchStrategy: the shrink moves.                            *)

\* a bug: the list passed in is kept as the runner's own
init_record_aliased(h, passed) == [heap |-> h, ref |-> passed]

\* StateMachineRunner.__init__: self.record = list(record or ()), a new list
\* with the entries of the one passed in
init_record(h, passed) ==
    [heap |-> [h EXCEPT !.lists = Append(@, h.lists[passed])],
     ref |-> Len(h.lists) + 1]

\* the 1-based positions of the live entries of a record
live(record) == { k \in 1..Len(record) : record[k] # TOMBSTONE }

\* the record with the positions of dead replaced by TOMBSTONE
bury(record, dead) ==
    [k \in 1..Len(record) |-> IF k \in dead THEN TOMBSTONE ELSE record[k]]

\* a bug: the runner is built without the record
derived_without_record(template, n_steps, record) ==
    StateMachineRunner(template.parameter_seed, template.template_seed,
                       n_steps, <<>>, template.templates)

\* the runner every move builds: seeds and templates of the template it was
\* applied to, with the given step count and record
derived(template, n_steps, record) ==
    StateMachineRunner(template.parameter_seed, template.template_seed,
                       n_steps, record, template.templates)

RECURSIVE midpoints_rounded_up(_, _)
\* a bug: the midpoint is rounded up
midpoints_rounded_up(n_steps, mid) ==
    LET next_mid == (n_steps + mid + 1) \div 2
    IN  IF next_mid = mid THEN <<>>
        ELSE <<next_mid>> \o midpoints_rounded_up(n_steps, next_mid)

RECURSIVE midpoints(_, _)
\* the midpoints cut_steps visits after mid, in order
midpoints(n_steps, mid) ==
    LET next_mid == (n_steps + mid) \div 2
    IN  IF next_mid = mid THEN <<>>
        ELSE <<next_mid>> \o midpoints(n_steps, next_mid)

RECURSIVE cut_at_drops_rest(_, _)
\* a bug: the candidate with the smaller step count keeps only the entries
\* below it
cut_at_drops_rest(template, mids) ==
    IF mids = <<>> THEN <<>>
    ELSE LET mid == Head(mids)
             upto == IF mid < Len(template.record) THEN mid ELSE Len(template.record)
         IN  << derived(template, mid, SubSeq(template.record, 1, upto)),
                derived(template, template.n_steps, bury(template.record, 1..upto)) >>
             \o cut_at_drops_rest(template, Tail(mids))

RECURSIVE cut_at(_, _)
\* the two candidates cut_steps yields per midpoint, in order
cut_at(template, mids) ==
    IF mids = <<>> THEN <<>>
    ELSE LET mid == Head(mids)
             upto == IF mid < Len(template.record) THEN mid ELSE Len(template.record)
         IN  << derived(template, mid, template.record),
                derived(template, template.n_steps, bury(template.record, 1..upto)) >>
             \o cut_at(template, Tail(mids))

\* a bug: the first candidate is yielded whatever the length of the record
cut_steps_unguarded(template) ==
    << derived(template, Len(template.record), template.record) >>
    \o cut_at(template, midpoints(template.n_steps, 0))

\* cut_steps(random, template): the candidates, in the order they are yielded
cut_steps(template) ==
    (IF Len(template.record) < template.n_steps
     THEN << derived(template, Len(template.record), template.record) >>
     ELSE <<>>)
    \o cut_at(template, midpoints(template.n_steps, 0))

\* a bug: the entries are counted without regard to tombstones
random_discards_counts_all(template, tape) ==
    IF Len(template.record) < MinLive THEN <<>>
    ELSE [n \in 1..(DiscardLevels * DiscardTrials) |->
            derived(template, template.n_steps,
                bury(template.record,
                     tape[((n - 1) \div DiscardTrials) + 1][((n - 1) % DiscardTrials) + 1]
                        \cap live(template.record)))]

\* random_discards(random, template): the candidates, in the order they are
\* yielded; tape[k][t] holds the positions at which random.randint(0, 9) <= k
\* came out true in trial t of level k
random_discards(template, tape) ==
    IF Cardinality(live(template.record)) < MinLive THEN <<>>
    ELSE [n \in 1..(DiscardLevels * DiscardTrials) |->
            derived(template, template.n_steps,
                bury(template.record,
                     tape[((n - 1) \div DiscardTrials) + 1][((n - 1) % DiscardTrials) + 1]
                        \cap live(template.record)))]

RECURSIVE delete_from_unlimited(_, _, _)
\* a bug: the loop does not stop after MaxDeletes candidates
delete_from_unlimited(template, indices, deletes) ==
    IF indices = <<>> THEN <<>>
    ELSE IF template.record[Head(indices) + 1] # TOMBSTONE
    THEN << derived(template, template.n_steps,
                    bury(template.record, {Head(indices) + 1})) >>
         \o delete_from_unlimited(template, Tail(indices), deletes + 1)
    ELSE delete_from_unlimited(template, Tail(indices), deletes)

RECURSIVE delete_from(_, _, _)
\* the loop of delete_elements over the shuffled 0-based indices
delete_from(template, indices, deletes) ==
    IF indices = <<>> \/ deletes >= MaxDeletes THEN <<>>
    ELSE IF template.record[Head(indices) + 1] # TOMBSTONE
    THEN << derived(template, template.n_steps,
                    bury(template.record, {Head(indices) + 1})) >>
         \o delete_from(template, Tail(indices), deletes + 1)
    ELSE delete_from(template, Tail(indices), deletes)

\* delete_elements(random, template): the candidates, in the order they are
\* yielded; indices is the list random.shuffle left
delete_elements(template, indices) == delete_from(template, indices, 0)

\* a bug: the wrapped move also tombstones the entries before its index
convert_simplifier_drops_head(strategy, i, template) ==
    IF i >= Len(template.record) THEN {}
    ELSE IF template.record[i + 1] = TOMBSTONE THEN {}
    ELSE LET reconstituted == strategy_from_basic(strategy, template.record[i + 1].data)
         IN  IF ~ reconstituted.ok THEN {}
             ELSE { derived(template, template.n_steps,
                        [bury(template.record, 1..i) EXCEPT
                            ![i + 1] = Entry(strategy, strategy_to_basic(strategy, t))]) :
                    t \in strategy_simplify(strategy, reconstituted.template) }

\* convert_simplifier(strategy, simplifier, i)(random, template): the
\* candidates of the wrapped move for 0-based index i
convert_simplifier(strategy, i, template) ==
    IF i >= Len(template.record) THEN {}
    ELSE IF template.record[i + 1] = TOMBSTONE THEN {}
    ELSE LET reconstituted == strategy_from_basic(strategy, template.record[i + 1].data)
         IN  IF ~ reconstituted.ok THEN {}
             ELSE { derived(template, template.n_steps,
                        [template.record EXCEPT
                            ![i + 1] = Entry(strategy, strategy_to_basic(strategy, t))]) :
                    t \in strategy_simplify(strategy, reconstituted.template) }

\* simplifiers(random, template): the 0-based indices for which a wrapped
\* move is built
delegated(template) ==
    { i \in 0..(Len(template.record) - 1) :
        /\ template.record[i + 1] # TOMBSTONE
        /\ template.record[i + 1].strategy # NoStrategy }

\* strategy.simplifiers(random, template): the shrink moves the strategy
\* of a step offers for a template, in order: one per sampled argument
strategy_simplifiers(strategy, t) == [k \in 1..Len(t.args) |-> k]

\* a move simplifiers() yields: a method of the search strategy, or the
\* wrapped move convert_simplifier(strategy, simplifier, i) returns
Move(name, strategy, simplifier, i) ==
    [name |-> name, strategy |-> strategy, simplifier |-> simplifier, i |-> i]

\* the three moves on the whole record
cut_steps_move == Move("cut_steps", NoStrategy, 0, 0)
random_discards_move == Move("random_discards", NoStrategy, 0, 0)
delete_elements_move == Move("delete_elements", NoStrategy, 0, 0)

RECURSIVE delegate(_, _)
\* the loop of simplifiers over the 0-based indices from i on
delegate(template, i) ==
    IF i >= Len(template.record) THEN <<>>
    ELSE IF template.record[i + 1] = TOMBSTONE THEN delegate(template, i + 1)
    ELSE IF template.record[i + 1].strategy = NoStrategy THEN delegate(template, i + 1)
    ELSE LET strategy == template.record[i + 1].strategy
             child_template == strategy_from_basic(strategy, template.record[i + 1].data).template
             offered == strategy_simplifiers(strategy, child_template)
         IN  [k \in 1..Len(offered) |-> Move("convert_simplifier", strategy, offered[k], i)]
             \o delegate(template, i + 1)

\* a bug: the single discard is yielded before the bulk discard
simplifiers_single_first(template) ==
    << cut_steps_move, delete_elements_move, random_discards_move >>
    \o delegate(template, 0)

\* simplifiers(random, template): the moves, in the order they are yielded
simplifiers(template) ==
    << cut_steps_move, random_discards_move, delete_elements_move >>
    \o delegate(template, 0)

-----------------------------------------------------------------------------
(* find_breaking_runner: the search predicate.                              *)

\* a bug: every exception counts as a breaking run
is_breaking_run_catch_all(exc) == IF exc = "none" THEN "False" ELSE "True"

\* what is_breaking_run does with the exception run() raised: it returns
\* False or True, or lets the exception through
is_breaking_run(exc) ==
    CASE exc = "none" -> "False"
      [] exc \in {"InvalidDefinition", "UnsatisfiedAssumption"} -> exc
      [] OTHER -> "True"

-----------------------------------------------------------------------------
(* Replay: the search predicate replays a runner loaded from stored data,   *)
(* pass by pass, and then a second time.                                    *)

SeqUpTo(S, n) == UNION { [1..k -> S] : k \in 0..n }

Seeds == 0..(SeedSpace - 1)

\* stored steps: a tombstone, the payload of a rule without arguments drawn
\* alone, the payload of the first of several rules drawn with index 0
StoredSteps ==
    { JNull,
      JList(<< tuple_to_basic(<<>>) >>),
      JList(<< JList(<< JInt(0), tuple_to_basic(<<0>>) >>) >>) }

\* the reporters: report() never raises, or raises at its n-th call
Reporters == { <<FALSE, 0>>, <<TRUE, 0>>, <<TRUE, 1>>, <<TRUE, 2>> }

Idle ==
    /\ orig = NoRunner
    /\ last = "none"
    /\ data = JNull
    /\ parsed = NotParsed
    /\ heap = NoHeap
    /\ registry = NoRegistry

Init ==
    /\ cls \in Classes
    /\ \E ps \in Seeds, ts \in Seeds, n \in 0..MaxSteps,
          stored \in SeqUpTo(StoredSteps, MaxRecord) :
          cur = from_basic(JList(<< JInt(ps), JInt(ts), JInt(n), JList(stored) >>)).runner
    /\ given = cur
    /\ run = NoFrame
    /\ first = NoFrame
    /\ verdict = "none"
    /\ Idle

\* is_breaking_run(runner) is called: state_machine_class() is constructed
\* and run() entered
Call ==
    /\ run.pc = "idle"
    /\ verdict = "none"
    /\ \E rep \in Reporters :
          IF init_raises(cls)
          THEN /\ verdict' = is_breaking_run("InvalidDefinition")
               /\ run' = run
          ELSE /\ run' = new_frame(new_machine(cls), rep[1], rep[2])
               /\ verdict' = verdict
    /\ given' = cur
    /\ UNCHANGED <<registry, heap, cls, cur, orig, last, first, data, parsed>>

\* one pass of the loop of run()
LoopPass ==
    /\ run.pc = "loop"
    /\ run.i < cur.n_steps
    /\ LET p == loop_pass(cur, run)
       IN  /\ cur' = p.runner
           /\ run' = p.frame
    /\ UNCHANGED <<registry, heap, cls, given, orig, last, first, verdict, data, parsed>>

\* the loop of run() ends
LoopExit ==
    /\ run.pc = "loop"
    /\ run.i >= cur.n_steps
    /\ run' = loop_exit(run)
    /\ UNCHANGED <<registry, heap, cls, cur, given, orig, last, first, verdict, data, parsed>>

\* the finally clause of run()
Teardown ==
    /\ run.pc = "finally"
    /\ run' = teardown(run)
    /\ UNCHANGED <<registry, heap, cls, cur, given, orig, last, first, verdict, data, parsed>>

\* run() has returned or raised: is_breaking_run returns or raises
Return ==
    /\ run.pc = "done"
    /\ verdict = "none"
    /\ verdict' = is_breaking_run(run.exc)
    /\ UNCHANGED <<registry, heap, cls, cur, given, orig, last, run, first, data, parsed>>

\* the predicate is called a second time, with the runner as the first
\* replay left it or with an equal copy of the runner the first one started from
Again ==
    /\ run.pc = "done"
    /\ verdict # "none"
    /\ first.pc = "idle"
    /\ first' = run
    /\ \E from_given \in BOOLEAN :
          /\ cur' = IF from_given THEN given ELSE cur
          /\ last' = IF from_given THEN "given" ELSE "mutated"
    /\ run' = new_frame(new_machine(cls), run.print_steps, run.fails_at)
    /\ verdict' = "none"
    /\ UNCHANGED <<registry, heap, cls, given, orig, data, parsed>>

Next == Call \/ LoopPass \/ LoopExit \/ Teardown \/ Return \/ Again

Spec == Init /\ [][Next]_vars

-----------------------------------------------------------------------------
(* Properties of the replay.                                                *)

\* the events of one kind in the frame
EventsOf(f, kind) == SelectSeq(f.events, LAMBDA e : e.ev = kind)

\* the steps the replay executed: the index and the value of each
Executed(f) == EventsOf(f, "exec")

AtTombstone ==
    /\ run.pc = "loop"
    /\ run.i < cur.n_steps
    /\ run.i < Len(cur.record)
    /\ cur.record[run.i + 1] = TOMBSTONE

\* C2 as claimed: the pass over a tombstoned index draws, reports and
\* executes nothing, leaves the record alone, has no effect on the system
\* under test and cannot end the run.
C2_TombstonePassInert ==
    [][AtTombstone =>
        /\ cur' = cur
        /\ run'.machine = run.machine
        /\ run'.pc = "loop"
        /\ run'.i = run.i + 1]_vars

\* C2 as amended: the pass over a tombstoned index draws, reports and
\* executes nothing and leaves the record alone; it calls steps() and nothing
\* else, so the system under test changes only as steps() changes it (the
\* bundles steps() looks at come to exist, empty), and the run goes on to the
\* next index unless steps() raised InvalidDefinition.
C2_TombstonePassOnlySteps ==
    [][AtTombstone =>
        /\ cur' = cur
        /\ run'.events = Append(run.events, Event("steps", run.i, NoStep, 0, 0))
        /\ run'.machine = steps(run.machine).machine
        /\ [run'.machine EXCEPT !.keys = {}] = [run.machine EXCEPT !.keys = {}]
        /\ \/ run'.pc = "loop" /\ run'.i = run.i + 1 /\ run'.exc = "none"
           \/ /\ run'.pc = "finally"
              /\ run'.exc = "InvalidDefinition"
              /\ candidates(run.machine) = <<>>]_vars

\* a replay went past a tombstoned index and executed a later one
C2_Witness ==
    \E k \in 1..Len(run.events) :
        /\ run.events[k].ev = "exec"
        /\ \E i \in 0..(run.events[k].i - 1) : is_tombstone(cur, i)

\* C4: two replays of the same runner against fresh instances execute the
\* same steps at the same indices and end the same way, whether the second
\* starts from the record as the first left it or from an equal copy of the
\* record the first started from.
C4_ReplayDeterministic ==
    (first.pc = "done" /\ run.pc = "done") =>
        /\ Executed(run) = Executed(first)
        /\ run.exc = first.exc

\* a second replay, of the record the first one drew into, has ended
C4_Witness ==
    /\ first.pc = "done"
    /\ run.pc = "done"
    /\ last = "mutated"
    /\ given.record # cur.record
    /\ Len(EventsOf(first, "draw")) >= 1
    /\ Len(Executed(run)) >= 2

\* C10: is_breaking_run runs the runner against a fresh instance; it returns
\* False when the replay completes, True when the replay raises anything but
\* InvalidDefinition and UnsatisfiedAssumption, and lets these two through.
C10_SearchPredicate ==
    /\ (run.pc = "loop" /\ run.events = <<>>) => run.machine = new_machine(cls)
    /\ verdict # "none" =>
          LET exc == IF init_raises(cls) THEN "InvalidDefinition" ELSE run.exc
          IN  /\ verdict = "False" <=> exc = "none"
              /\ verdict = "True" <=>
                    exc \notin {"none", "InvalidDefinition", "UnsatisfiedAssumption"}
              /\ verdict \in {"InvalidDefinition", "UnsatisfiedAssumption"} <=>
                    exc = verdict
              /\ verdict \in {"False", "True", "InvalidDefinition",
                              "UnsatisfiedAssumption"}

\* the predicate let an inapplicable step through
C10_Witness ==
    /\ verdict = "UnsatisfiedAssumption"
    /\ run.pc = "done"
    /\ Len(Executed(run)) >= 1

-----------------------------------------------------------------------------
(* The canonical form: runners are serialized and the data read back, and   *)
(* stored data of any shape is read.                                        *)

\* a strategy as steps() builds it once bundle b holds one value
SomeStrategy == << Alternative(peek, << <<1>> >>), Alternative(push, <<>>) >>

\* the entries of the runners serialized: a tombstone, an entry read from
\* stored data, an entry a replay drew
SomeEntries ==
    { TOMBSTONE,
      Entry(NoStrategy, tuple_to_basic(<<>>)),
      Entry(SomeStrategy, strategy_to_basic(SomeStrategy, Template(1, <<0>>))) }

\* the step counts of the runners serialized: the small ones, the ceiling
\* of from_basic and the one above it, the ceiling of the constructor
SomeStepCounts ==
    (0..MaxSteps) \cup {DefaultStepCount * 1000, DefaultStepCount * 1000 + 1, MaxNSteps}

\* stored data: every shape of the outer list, of its fields and of its steps
StoredFields == { JInt(1), JStr }

StoredCounts ==
    { JInt(0 - 1), JInt(0), JInt(1), JInt(DefaultStepCount * 1000),
      JInt(DefaultStepCount * 1000 + 1), JInt(2000000000), JNull }

StoredRecords ==
    { JList(s) : s \in SeqUpTo(StoredSteps, MaxRecord) } \cup
    { JNull,
      JList(<< JList(<<>>) >>),
      JList(<< JInt(0) >>),
      JList(<< JNull, JList(<< JNull, JNull >>) >>) }

StoredData ==
    { JList(<<a, b, c, d>>) :
        a \in StoredFields, b \in StoredFields, c \in StoredCounts, d \in StoredRecords }
    \cup { JList(<<a, c, d>>) : a \in StoredFields, c \in StoredCounts, d \in StoredRecords }
    \cup { JList(<<a, a, c, d, d>>) :
        a \in StoredFields, c \in StoredCounts, d \in StoredRecords }
    \cup { JInt(4), JNull, JStr }

InitBasic ==
    /\ cls = <<>>
    /\ \/ /\ \E ps \in Seeds, ts \in Seeds, n \in SomeStepCounts,
                record \in SeqUpTo(SomeEntries, MaxRecord) :
                cur = StateMachineRunner(ps, ts, n, record, NoTemplates)
          /\ data = JNull
          /\ last = "runner"
       \/ /\ cur = NoRunner
          /\ data \in StoredData
          /\ last = "stored"
    /\ given = cur
    /\ orig = NoRunner
    /\ run = NoFrame
    /\ first = NoFrame
    /\ verdict = "none"
    /\ parsed = NotParsed
    /\ heap = NoHeap
    /\ registry = NoRegistry

\* to_basic(cur)
ToBasic ==
    /\ last = "runner"
    /\ data' = to_basic(cur)
    /\ last' = "to_basic"
    /\ UNCHANGED <<registry, heap, cls, cur, given, orig, run, first, verdict, parsed>>

\* from_basic(data)
FromBasic ==
    /\ last \in {"to_basic", "stored"}
    /\ parsed' = from_basic(data)
    /\ last' = IF last = "to_basic" THEN "round_trip" ELSE "from_basic"
    /\ UNCHANGED <<registry, heap, cls, cur, given, orig, run, first, verdict, data>>

NextBasic == ToBasic \/ FromBasic

SpecBasic == InitBasic /\ [][NextBasic]_vars

\* the runner read back is the runner serialized, up to the strategies
RoundTripped ==
    /\ parsed.outcome = "ok"
    /\ parsed.runner.parameter_seed = cur.parameter_seed
    /\ parsed.runner.template_seed = cur.template_seed
    /\ parsed.runner.n_steps = cur.n_steps
    /\ Len(parsed.runner.record) = Len(cur.record)
    /\ \A k \in 1..Len(cur.record) :
          /\ parsed.runner.record[k] = TOMBSTONE <=> cur.record[k] = TOMBSTONE
          /\ cur.record[k] # TOMBSTONE =>
                parsed.runner.record[k].data = cur.record[k].data

\* C5 as claimed: from_basic(to_basic(r)) succeeds and gives back the seeds,
\* the step count, the record length, the tombstones and the payloads of r,
\* for every runner r with 0 <= n_steps <= 1000000.
C5_RoundTripOfEveryValidRunner ==
    (last = "round_trip" /\ runner_asserts(cur)) => RoundTripped

\* C5 as amended: the same, for every runner r whose step count is at most
\* 1000 times the default step count (50000), the ceiling of from_basic.
C5_RoundTripBelowCeiling ==
    (last = "round_trip" /\ runner_asserts(cur)
        /\ cur.n_steps <= DefaultStepCount * 1000) => RoundTripped

\* a runner with a tombstone and a payload, at the ceiling, was read back
C5_Witness ==
    /\ last = "round_trip"
    /\ cur.n_steps = DefaultStepCount * 1000
    /\ \E j, k \in 1..Len(cur.record) :
          cur.record[j] = TOMBSTONE /\ cur.record[k] # TOMBSTONE
    /\ RoundTripped

\* a list of exactly 4 elements, the first three integers, the third in
\* 0 .. 1000 x the default step count, the fourth a list of nulls and
\* single-element lists
WellFormed(d) ==
    /\ d.kind = "list"
    /\ Len(d.items) = 4
    /\ \A k \in 1..3 : d.items[k].kind = "int"
    /\ d.items[3].val >= 0
    /\ d.items[3].val <= 1000 * DefaultStepCount
    /\ d.items[4].kind = "list"
    /\ \A k \in 1..Len(d.items[4].items) :
          \/ d.items[4].items[k].kind = "null"
          \/ d.items[4].items[k].kind = "list" /\ Len(d.items[4].items[k].items) = 1

\* C6: from_basic accepts exactly the well formed data, and builds the
\* runner of its fields; everything else raises BadData and builds no runner.
C6_FromBasicValidates ==
    (last \in {"from_basic", "round_trip"}) =>
        /\ parsed.outcome = "ok" <=> WellFormed(data)
        /\ ~ WellFormed(data) => parsed = BadData
        /\ WellFormed(data) =>
              /\ parsed.runner.parameter_seed = data.items[1].val
              /\ parsed.runner.template_seed = data.items[2].val
              /\ parsed.runner.n_steps = data.items[3].val
              /\ Len(parsed.runner.record) = Len(data.items[4].items)

\* data with well typed fields and a step count one above the ceiling was
\* rejected
C6_Witness ==
    /\ last = "from_basic"
    /\ parsed = BadData
    /\ data.kind = "list"
    /\ Len(data.items) = 4
    /\ \A k \in 1..3 : data.items[k].kind = "int"
    /\ data.items[3].val = DefaultStepCount * 1000 + 1
    /\ data.items[4] = JList(<<>>)

-----------------------------------------------------------------------------
(* Shrinking: the driver holds a runner it has replayed and applies shrink  *)
(* moves and round trips through the canonical form to it, in any order.    *)

\* the classes shrunk, each with the step counts it is run for
Programs ==
    { << <<push>>, LongRun >> }
    \cup { << c, n >> : c \in { <<peek, push>>, <<pop, push>> }, n \in 0..MaxSteps }

\* the lists random.shuffle may leave of the indices 0 .. n-1: here the list
\* in order and the list reversed
Shuffles(n) == { [k \in 1..n |-> k - 1], [k \in 1..n |-> n - k] }

\* the tape of a bulk discard that masks the same positions in every trial
Tape(mask) == [k \in 1..DiscardLevels |-> [t \in 1..DiscardTrials |-> mask]]

InitMoves ==
    /\ \E prog \in Programs, ps \in Seeds, ts \in Seeds :
          /\ prog[2] = LongRun => ps = 0 /\ ts = SeedSpace - 1
          /\ cls = prog[1]
          /\ cur = run_all(produce_template(ps, ts, prog[2]),
                           new_frame(new_machine(prog[1]), FALSE, 0)).runner
    /\ orig = cur
    /\ given = cur
    /\ last = "run"
    /\ run = NoFrame
    /\ first = NoFrame
    /\ verdict = "none"
    /\ data = JNull
    /\ parsed = NotParsed
    /\ heap = NoHeap
    /\ registry = NoRegistry

\* the driver takes a candidate of cut_steps
CutSteps ==
    /\ LET yielded == cut_steps(cur)
       IN  \E k \in 1..Len(yielded) : cur' = yielded[k]
    /\ UNCHANGED <<registry, heap, cls, last, given, orig, run, first, verdict, data, parsed>>

\* the driver takes a candidate of random_discards
RandomDiscards ==
    /\ Cardinality(live(cur.record)) >= MinLive
    /\ \E mask \in SUBSET live(cur.record) : cur' = random_discards(cur, Tape(mask))[1]
    /\ UNCHANGED <<registry, heap, cls, last, given, orig, run, first, verdict, data, parsed>>

\* the driver takes a candidate of delete_elements
DeleteElements ==
    /\ \E indices \in Shuffles(Len(cur.record)) :
          LET yielded == delete_elements(cur, indices)
          IN  \E k \in 1..Len(yielded) : cur' = yielded[k]
    /\ UNCHANGED <<registry, heap, cls, last, given, orig, run, first, verdict, data, parsed>>

\* the driver takes a candidate of a wrapped move simplifiers() built
ConvertSimplifier ==
    /\ \E i \in delegated(cur) :
          cur' \in convert_simplifier(cur.record[i + 1].strategy, i, cur)
    /\ UNCHANGED <<registry, heap, cls, last, given, orig, run, first, verdict, data, parsed>>

\* the runner is stored and read back
RoundTrip ==
    /\ from_basic(to_basic(cur)).outcome = "ok"
    /\ cur' = from_basic(to_basic(cur)).runner
    /\ UNCHANGED <<registry, heap, cls, last, given, orig, run, first, verdict, data, parsed>>

NextMoves ==
    CutSteps \/ RandomDiscards \/ DeleteElements \/ ConvertSimplifier \/ RoundTrip

SpecMoves == InitMoves /\ [][NextMoves]_vars

-----------------------------------------------------------------------------
(* Claims about shrinking, checked under SpecMoves                          *)

\* the 1-based positions of a record that hold the tombstone
tombstones(record) == { k \in 1..Len(record) : record[k] = TOMBSTONE }

\* C3: after any chain of shrink moves and round trips, every index below the
\* step count still addresses the seed the original runner held at that index,
\* and a fresh draw at the index is seeded with the original parameter seed
\* and that seed, however many earlier indices are tombstoned
C3_SeedsByAbsoluteIndex ==
    \A i \in 0..(cur.n_steps - 1) :
        /\ i < cur.templates.len
        /\ templates_at(cur.templates, i) = templates_at(orig.templates, i)
        /\ fresh_seeds(cur, i) = << orig.parameter_seed, templates_at(orig.templates, i) >>

\* a truncated runner read back from its canonical form, with a live index
\* below the step count that follows a tombstoned one
C3_Witness ==
    /\ cur.n_steps < orig.n_steps
    /\ cur.templates.len < orig.templates.len
    /\ \E k \in tombstones(cur.record) :
          \E j \in live(cur.record) : k < j /\ j <= cur.n_steps

\* C7: no shrink move and no round trip yields a runner with a larger step
\* count than the runner it was applied to
C7_StepCountNeverGrows == [][cur'.n_steps <= cur.n_steps]_vars

\* a runner truncated to a midpoint below the length of its record
C7_Witness ==
    /\ 0 < cur.n_steps
    /\ cur.n_steps < orig.n_steps
    /\ cur.n_steps < Len(cur.record)

\* C8: every index tombstoned in a runner is tombstoned in every runner a
\* shrink move or a round trip derives from it
C8_TombstonesStay ==
    [][\A k \in tombstones(cur.record) :
          k <= Len(cur'.record) /\ cur'.record[k] = TOMBSTONE]_vars

\* a runner read back from its canonical form that holds tombstones the
\* original did not, enough of them that the bulk discard no longer applies
C8_Witness ==
    /\ tombstones(cur.record) \ tombstones(orig.record) # {}
    /\ Cardinality(live(cur.record)) < MinLive
    /\ Len(cur.record) >= MinLive
    /\ \E j \in live(cur.record) : cur.record[j].strategy = NoStrategy

-----------------------------------------------------------------------------
(* Search: find() applies the search predicate to a generated runner and,   *)
(* once a run breaks, to the candidates of the shrink moves, keeping every  *)
(* candidate whose run still breaks, until none does.                       *)

Range(s) == { s[k] : k \in DOMAIN s }

\* the candidates the moves of simplifiers() yield for a template, over every
\* outcome of their random choices
family(template) ==
    Range(cut_steps(template))
    \cup (IF Cardinality(live(template.record)) < MinLive THEN {}
          ELSE { random_discards(template, Tape(mask))[1] :
                    mask \in SUBSET live(template.record) })
    \cup UNION { Range(delete_elements(template, indices)) :
                    indices \in Shuffles(Len(template.record)) }
    \cup UNION { convert_simplifier(template.record[i + 1].strategy, i, template) :
                    i \in delegated(template) }

\* runner.run(state_machine_class()) on a fresh instance of the class
replay(class, r) == run_all(r, new_frame(new_machine(class), FALSE, 0))

\* the search predicate holds of the runner
reproduces(class, r) == is_breaking_run(replay(class, r).frame.exc) = "True"

InitFind ==
    /\ cls = <<pop, push>>
    /\ \E ps \in Seeds, ts \in Seeds : cur = produce_template(ps, ts, LongRun)
    /\ orig = cur
    /\ given = cur
    /\ last = "produce_template"
    /\ run = NoFrame
    /\ first = NoFrame
    /\ verdict = "none"
    /\ data = JNull
    /\ parsed = NotParsed
    /\ heap = NoHeap
    /\ registry = NoRegistry

\* the predicate is applied to the generated runner
Search ==
    /\ last = "produce_template"
    /\ LET replayed == replay(cls, cur)
       IN  /\ cur' = replayed.runner
           /\ run' = replayed.frame
           /\ verdict' = is_breaking_run(replayed.frame.exc)
           /\ last' = IF is_breaking_run(replayed.frame.exc) = "True"
                      THEN "found" ELSE "passed"
    /\ UNCHANGED <<registry, heap, cls, given, orig, first, data, parsed>>

\* a candidate of a move is kept: its run breaks
Shrink ==
    /\ last \in {"found", "shrunk"}
    /\ \E c \in family(cur) :
          LET replayed == replay(cls, c)
          IN  /\ is_breaking_run(replayed.frame.exc) = "True"
              /\ cur' = replayed.runner
              /\ run' = replayed.frame
    /\ verdict' = "True"
    /\ last' = "shrunk"
    /\ UNCHANGED <<registry, heap, cls, given, orig, first, data, parsed>>

\* no candidate of any move breaks, but for candidates whose run leaves the
\* runner already held: the runner is returned
Minimal ==
    /\ last \in {"found", "shrunk"}
    /\ \A c \in family(cur) : reproduces(cls, c) => replay(cls, c).runner = cur
    /\ last' = "minimal"
    /\ UNCHANGED <<registry, heap, cls, cur, given, orig, run, first, verdict, data, parsed>>

NextFind == Search \/ Shrink \/ Minimal

SpecFind == InitFind /\ [][NextFind]_vars

\* the functions the run executed, in order
Operations(f) == [k \in 1..Len(Executed(f)) |-> Executed(f)[k].step.rule.function]

\* C9: for the class with rules push and pop run for the long step count,
\* a generated runner breaks, and a runner that breaks and has no candidate
\* that breaks and differs from it executes exactly push, pop
C9_ShrinksToPushPop ==
    /\ last = "produce_template" => \E ps \in Seeds, ts \in Seeds :
          reproduces(cls, produce_template(ps, ts, LongRun))
    /\ last = "minimal" => Operations(run) = <<"push", "pop">>

\* the search found a run that executes more than two steps and shrank it to
\* a runner no move improves
C9_Witness ==
    /\ last = "minimal"
    /\ run.exc = "AssertionError"
    /\ cur # orig
    /\ tombstones(cur.record) # {}

-----------------------------------------------------------------------------
(* StateMachineTestCase.runTest: the search for a breaking runner, then the *)
(* replay of the runner found on a fresh instance with the steps printed.   *)

\* a bug: a replay that completes ends the test as a pass
test_ends_pass(exc) == IF exc # "none" THEN exc ELSE "pass"

\* how runTest ends after breaker.run(...): with the exception the replay
\* raised, or with Flaky
test_ends(exc) == IF exc # "none" THEN exc ELSE "Flaky"

\* state_machine_class() where the constructor of the class under test
\* starts its counter at world: the values push produces depend on it
instance_of(rules, world) == [new_machine(rules) EXCEPT !.counter = world]

\* the worlds the confirming instance may be built in; the search runs in 0
Worlds == {0, 2}

InitTest ==
    /\ cls \in Classes
    /\ \E ps \in Seeds, ts \in Seeds, n \in 0..MaxSteps :
          cur = produce_template(ps, ts, n)
    /\ orig = cur
    /\ given = cur
    /\ last = "produce_template"
    /\ run = NoFrame
    /\ first = NoFrame
    /\ verdict = "none"
    /\ data = JNull
    /\ parsed = NotParsed
    /\ heap = NoHeap
    /\ registry = NoRegistry

\* find applies is_breaking_run to the generated runner: the constructor or
\* steps() raising InvalidDefinition ends runTest with it; a run that does not
\* break, or fails an assumption, leaves find without an example
TestSearch ==
    /\ last = "produce_template"
    /\ IF init_raises(cls)
       THEN /\ verdict' = is_breaking_run("InvalidDefinition")
            /\ UNCHANGED <<cur, first>>
       ELSE LET replayed == replay(cls, cur)
            IN  /\ cur' = replayed.runner
                /\ first' = replayed.frame
                /\ verdict' = is_breaking_run(replayed.frame.exc)
    /\ last' = CASE verdict' = "True" -> "found"
                 [] verdict' = "InvalidDefinition" -> "InvalidDefinition"
                 [] OTHER -> "NoSuchExample"
    /\ UNCHANGED <<registry, heap, cls, given, orig, run, data, parsed>>

\* find keeps a candidate of a move whose run breaks
TestShrink ==
    /\ last = "found"
    /\ \E c \in family(cur) :
          LET replayed == replay(cls, c)
          IN  /\ is_breaking_run(replayed.frame.exc) = "True"
              /\ cur' = replayed.runner
              /\ first' = replayed.frame
    /\ UNCHANGED <<registry, heap, cls, given, orig, last, run, verdict, data, parsed>>

\* except NoSuchExample: return
TestPasses ==
    /\ last = "NoSuchExample"
    /\ last' = "pass"
    /\ UNCHANGED <<registry, heap, cls, cur, given, orig, run, first, verdict, data, parsed>>

\* find returns the breaker: breaker.run(state_machine_class(),
\* print_steps=True) is entered
Confirm ==
    /\ last = "found"
    /\ \E world \in Worlds, fails_at \in 0..MaxRecord :
          run' = new_frame(instance_of(cls, world), TRUE, fails_at)
    /\ given' = cur
    /\ last' = "confirm"
    /\ UNCHANGED <<registry, heap, cls, cur, orig, first, verdict, data, parsed>>

\* the replay raised, or it returned and Flaky is raised
TestEnds ==
    /\ last = "confirm"
    /\ run.pc = "done"
    /\ last' = test_ends(run.exc)
    /\ UNCHANGED <<registry, heap, cls, cur, given, orig, run, first, verdict, data, parsed>>

NextTest ==
    \/ TestSearch \/ TestShrink \/ TestPasses \/ Confirm
    \/ LoopPass \/ LoopExit \/ Teardown \/ TestEnds

SpecTest == InitTest /\ [][NextTest]_vars

\* the test has ended
TestOver == last \notin {"produce_template", "found", "NoSuchExample", "confirm"}

\* C11: the test passes only when the search found no breaking run; once one
\* is found, the only replay that follows has step printing on and starts on
\* a fresh instance, and the test ends with the exception of that replay or,
\* when the replay returned, with Flaky, never as a pass
C11_PassOnlyWithoutBreaker ==
    /\ last = "pass" => verdict \in {"False", "UnsatisfiedAssumption"} /\ run = NoFrame
    /\ run # NoFrame => verdict = "True" /\ run.print_steps
    /\ (last = "confirm" /\ run.events = <<>>) =>
          \E world \in Worlds : run.machine = instance_of(cls, world)
    /\ (verdict = "True" /\ TestOver) =>
          /\ run.pc = "done"
          /\ last # "pass"
          /\ last = (IF run.exc # "none" THEN run.exc ELSE "Flaky")

\* a run that broke in the search and returned in the replay: Flaky
C11_Witness ==
    /\ last = "Flaky"
    /\ verdict = "True"
    /\ first.exc = "AssertionError"
    /\ Len(EventsOf(run, "print")) > 0

-----------------------------------------------------------------------------
(* The instance on its own: a caller constructs it and calls steps(),       *)
(* print_step and execute_step on it, with any step of the strategy         *)
(* steps() returned last.                                                   *)

\* the classes driven directly
MachineClasses ==
    { <<both, move, push>>, <<both, move>>, <<pop, push>>, <<push, reject>>,
      <<peek, twice>>, <<>> }

\* the templates of a strategy: an alternative and an index into each of its
\* element lists
templates_of(strategy) ==
    UNION { { Template(alt, args) :
                args \in { a \in [1..Len(strategy[alt].elements) -> 0..MaxSteps] :
                            \A k \in 1..Len(a) : a[k] < Len(strategy[alt].elements[k]) } } :
            alt \in 1..Len(strategy) }

\* a class and no instance of it yet
InitMachine ==
    /\ cls \in MachineClasses
    /\ run = NoFrame
    /\ verdict = "none"
    /\ last = "none"
    /\ given = NoStrategy
    /\ first = NoFrame
    /\ cur = NoRunner
    /\ orig = NoRunner
    /\ data = JNull
    /\ parsed = NotParsed
    /\ heap = NoHeap
    /\ registry = NoRegistry

\* state_machine_class(): the caller gets the instance, or the exception
Construct ==
    /\ last = "none"
    /\ LET made == construct(cls)
       IN  /\ run' = IF made.exc # "none" THEN [NoFrame EXCEPT !.machine = made.machine]
                      ELSE new_frame(made.machine, FALSE, 0)
           /\ verdict' = made.exc
    /\ last' = "__init__"
    /\ UNCHANGED <<registry, heap, cls, cur, given, orig, first, data, parsed>>

\* steps() is called on the instance
CallSteps ==
    /\ run.pc = "loop"
    /\ run.i < MaxSteps
    /\ LET st == steps(run.machine)
       IN  /\ run' = [run EXCEPT !.machine = st.machine]
           /\ given' = IF st.raised THEN NoStrategy ELSE st.strategy
           /\ verdict' = IF st.raised THEN "InvalidDefinition" ELSE "none"
    /\ last' = "steps"
    /\ UNCHANGED <<registry, heap, cls, cur, orig, first, data, parsed>>

\* print_step(step) is called with a step of the strategy returned last
CallPrintStep ==
    /\ run.pc = "loop"
    /\ last = "steps"
    /\ run.machine.step_count < MaxSteps
    /\ \E t \in templates_of(given), fails_at \in 0..MaxSteps :
          LET pr == print_step(run.machine, reify(given, t), fails_at)
          IN  /\ run' = [run EXCEPT !.machine = pr.machine]
              /\ verdict' = pr.exc
    /\ last' = "print_step"
    /\ UNCHANGED <<registry, heap, cls, cur, given, orig, first, data, parsed>>

\* execute_step(step) is called with a step of the strategy returned last
CallExecuteStep ==
    /\ run.pc = "loop"
    /\ last \in {"steps", "print_step"}
    /\ given # NoStrategy
    /\ \E t \in templates_of(given) :
          LET ex == execute_step(run.machine, reify(given, t))
          IN  /\ run' = [run EXCEPT !.machine = ex.machine, !.i = @ + 1]
              /\ verdict' = ex.exc
              /\ first' = [NoFrame EXCEPT
                              !.events = << Event("exec", run.i, reify(given, t), 0, 0) >>]
    /\ last' = "execute_step"
    /\ UNCHANGED <<registry, heap, cls, cur, given, orig, data, parsed>>

NextMachine == Construct \/ CallSteps \/ CallPrintStep \/ CallExecuteStep

SpecMachine == InitMachine /\ [][NextMachine]_vars

\* the rules of the class all of whose bundle arguments name a bundle that
\* holds a value on the instance
Satisfied(m) ==
    { k \in 1..Len(m.rules) :
        \A a \in 1..Len(m.rules[k].arguments) : m.bundles[m.rules[k].arguments[a]] # <<>> }

\* C12: the strategy steps() returns has one alternative for each rule all of
\* whose bundle arguments name a bundle holding a value on the instance, and
\* for no other rule: a rule with an empty bundle among its arguments is left
\* out, a rule without bundle arguments is always in; each alternative samples
\* from the bundles as they are
C12_CandidatesAreSatisfiedRules ==
    (last = "steps" /\ verdict = "none") =>
        /\ { given[k].rule : k \in 1..Len(given) }
              = { run.machine.rules[k] : k \in Satisfied(run.machine) }
        /\ Len(given) = Cardinality(Satisfied(run.machine))
        /\ \A k \in 1..Len(given) :
              /\ Len(given[k].elements) = Len(given[k].rule.arguments)
              /\ \A a \in 1..Len(given[k].elements) :
                    given[k].elements[a] = run.machine.bundles[given[k].rule.arguments[a]]

\* steps() leaves out a rule whose first bundle holds a value and whose
\* second is empty, and returns one that takes an argument
C12_Witness ==
    /\ last = "steps"
    /\ verdict = "none"
    /\ run.machine.bundles["b"] # <<>>
    /\ run.machine.bundles["c"] = <<>>
    /\ both \in { run.machine.rules[k] : k \in 1..Len(run.machine.rules) }
    /\ move \in { given[k].rule : k \in 1..Len(given) }

-----------------------------------------------------------------------------
(* Claims about the replay when no rule is eligible, checked under Spec     *)

\* no rule of the instance has all its bundles holding a value
NoneEligible(m) ==
    \A k \in 1..Len(m.rules) :
        \E a \in 1..Len(m.rules[k].arguments) : m.bundles[m.rules[k].arguments[a]] = <<>>

\* C13: a pass of the replay that calls steps() while no rule is eligible
\* ends with InvalidDefinition raised at that index: nothing is drawn,
\* stored, printed or executed in the pass or after it in that call of the
\* predicate, only teardown follows, and the predicate lets the error through
\* instead of returning True or False
C13_NoProgressIsRaised ==
    [][/\ (run.pc = "loop" /\ run.i < cur.n_steps /\ NoneEligible(run.machine)) =>
            /\ run'.pc = "finally"
            /\ run'.exc = "InvalidDefinition"
            /\ run'.i = run.i
            /\ cur' = cur
            /\ run'.events = Append(run.events, Event("steps", run.i, NoStep, 0, 0))
       /\ (run.exc = "InvalidDefinition" /\ first' = first) =>
            /\ cur' = cur
            /\ Executed(run') = Executed(run)
            /\ EventsOf(run', "draw") = EventsOf(run, "draw")
            /\ EventsOf(run', "print") = EventsOf(run, "print")
            /\ EventsOf(run', "steps") = EventsOf(run, "steps")
            /\ run'.pc \in {"finally", "done"}
            /\ verdict' # verdict => verdict' = "InvalidDefinition"]_vars

\* the predicate has let through the InvalidDefinition that steps() raised at
\* an index of the run
C13_Witness ==
    /\ run.pc = "done"
    /\ run.exc = "InvalidDefinition"
    /\ verdict = "InvalidDefinition"
    /\ Len(EventsOf(run, "steps")) > 0
    /\ Executed(run) = <<>>

-----------------------------------------------------------------------------
(* Claims about the instance, checked under SpecMachine                     *)

\* C14: constructing an instance of a class that declares no rule raises
\* InvalidDefinition with nothing assigned yet: the object has no bundle, no
\* name counter and no value, and no strategy is asked of it and no step of
\* it printed or executed
C14_NoRulesRaisesAtConstruction ==
    (cls = <<>> /\ last # "none") =>
        /\ last = "__init__"
        /\ verdict = "InvalidDefinition"
        /\ run.pc = "idle"
        /\ run.machine.keys = {}
        /\ \A b \in BundleNames : run.machine.bundles[b] = <<>>
        /\ run.machine.name_counter = 0
        /\ run.machine.names_to_values = <<>>
        /\ run.machine.step_count = 0
        /\ run.i = 0
        /\ given = NoStrategy

\* the constructor of the class without rules has raised
C14_Witness ==
    /\ cls = <<>>
    /\ last = "__init__"
    /\ verdict = "InvalidDefinition"

-----------------------------------------------------------------------------
(* The runner objects of a shrink pass and their record lists: the moves    *)
(* build runners from the runner they are applied to, and the driver        *)
(* replays candidates, which writes to the candidate's list in place.       *)

\* the runner object k as a value: its fields and the entries of its list
value(h, k) == [h.objs[k].runner EXCEPT !.record = h.lists[h.objs[k].ref]]

\* the candidates of cut_steps that are built with record=template.record,
\* the list of the template itself: the first when the record is short, and
\* the first of the two at every midpoint
passes_own_list(template, k) ==
    LET pre == IF Len(template.record) < template.n_steps THEN 1 ELSE 0
    IN  k <= pre \/ (k - pre) % 2 = 1

\* the candidates of the moves for a template, each with whether it is built
\* with the template's own list or with a new_record list made for it
yields(template) ==
    { << cut_steps(template)[k], passes_own_list(template, k) >> :
        k \in 1..Len(cut_steps(template)) }
    \cup { << c, FALSE >> :
            c \in UNION { Range(delete_elements(template, indices)) :
                            indices \in Shuffles(Len(template.record)) } }
    \cup { << c, FALSE >> :
            c \in UNION { convert_simplifier(template.record[i + 1].strategy, i, template) :
                            i \in delegated(template) } }

\* a move applied to object k yields candidate c: new_record, when it is
\* made, is a list of its own, and the constructor is handed that list or
\* the list of object k
yield_runner(h, k, c, own) ==
    LET h1 == IF own THEN h ELSE [h EXCEPT !.lists = Append(@, c.record)]
        made == init_record(h1, IF own THEN h.objs[k].ref ELSE Len(h1.lists))
    IN  [made.heap EXCEPT
            !.objs = Append(@, [runner |-> [c EXCEPT !.record = <<>>], ref |-> made.ref]),
            !.replayed = 0]

\* the runner the driver holds, replayed, as the only object
InitHeap ==
    /\ \E class \in { <<peek, push>>, <<pop, push>> }, ps \in Seeds, ts \in Seeds,
          n \in 0..MaxSteps :
          /\ cls = class
          /\ cur = replay(class, produce_template(ps, ts, n)).runner
    /\ heap = [lists |-> << cur.record >>,
               objs |-> << [runner |-> [cur EXCEPT !.record = <<>>], ref |-> 1] >>,
               replayed |-> 0]
    /\ registry = NoRegistry
    /\ orig = cur
    /\ given = cur
    /\ last = "run"
    /\ run = NoFrame
    /\ first = NoFrame
    /\ verdict = "none"
    /\ data = JNull
    /\ parsed = NotParsed

\* a move applied to one of the objects yields a candidate
Yield ==
    /\ Len(heap.objs) <= MaxCandidates
    /\ \E k \in 1..Len(heap.objs) :
          \E y \in yields(value(heap, k)) : heap' = yield_runner(heap, k, y[1], y[2])
    /\ last' = "yield"
    /\ UNCHANGED <<registry, cls, cur, given, orig, run, first, verdict, data, parsed>>

\* the driver applies the predicate to a candidate: run() stores into the
\* candidate's list
ReplayCandidate ==
    /\ \E k \in 2..Len(heap.objs) :
          heap' = [heap EXCEPT
                      !.lists[heap.objs[k].ref] = replay(cls, value(heap, k)).runner.record,
                      !.replayed = k]
    /\ last' = "run"
    /\ UNCHANGED <<registry, cls, cur, given, orig, run, first, verdict, data, parsed>>

NextHeap == Yield \/ ReplayCandidate

SpecHeap == InitHeap /\ [][NextHeap]_vars

-----------------------------------------------------------------------------
(* Claims about the single moves, checked under SpecMoves: the moves built  *)
(* for the original runner are applied to every runner the chain reaches.   *)

\* candidate c has the step count, both seeds and the per-index seeds of
\* template, and a record of the same length
same_frame(c, template) ==
    /\ c.n_steps = template.n_steps
    /\ c.parameter_seed = template.parameter_seed
    /\ c.template_seed = template.template_seed
    /\ c.templates = template.templates
    /\ Len(c.record) = Len(template.record)

randint_tape(seed, n) ==
    [k \in 1..DiscardLevels |->
        [t \in 1..DiscardTrials |->
            { p \in 1..n : (seed + 3 * t + 7 * p + k) % 10 <= k }]]

\* C17: random_discards yields nothing for a record with fewer than 10 live
\* entries and otherwise exactly 70 candidates, each with the step count and
\* seeds of the input and with every entry the input's or a tombstone
C17_BulkDiscardYieldsSeventy ==
    \A seed \in 0..(RandSpace - 1) :
        LET yielded == random_discards(cur, randint_tape(seed, Len(cur.record)))
        IN  IF Cardinality(live(cur.record)) < 10
            THEN yielded = <<>>
            ELSE /\ Len(yielded) = 70
                 /\ \A n \in 1..70 :
                       /\ same_frame(yielded[n], cur)
                       /\ \A k \in 1..Len(cur.record) :
                             \/ yielded[n].record[k] = cur.record[k]
                             \/ yielded[n].record[k] = TOMBSTONE

\* a runner read back from its canonical form with ten live entries, for
\* which a masking buries some entries and keeps others
C17_Witness ==
    /\ cur # orig
    /\ Cardinality(live(cur.record)) >= 10
    /\ \E n \in 1..70 :
          LET c == random_discards(cur, randint_tape(0, Len(cur.record)))[n]
          IN  /\ live(c.record) # {}
              /\ tombstones(c.record) # {}

-----------------------------------------------------------------------------
(* Single discards of a run with more live entries than one call of         *)
(* delete_elements buries: the driver chains the move and round trips.      *)

InitDelete ==
    /\ cls = <<push>>
    /\ cur = replay(cls, produce_template(0, SeedSpace - 1, MaxDeletes + MaxRecord)).runner
    /\ orig = cur
    /\ given = cur
    /\ last = "run"
    /\ run = NoFrame
    /\ first = NoFrame
    /\ verdict = "none"
    /\ data = JNull
    /\ parsed = NotParsed
    /\ heap = NoHeap
    /\ registry = NoRegistry

NextDelete == DeleteElements \/ RoundTrip

SpecDelete == InitDelete /\ [][NextDelete]_vars

\* the 1-based positions at which two records of the same length differ
changed(a, b) == { k \in 1..Len(a) : a[k] # b[k] }

\* C18: for a record with L live entries delete_elements yields min(10, L)
\* candidates; each has the step count and seeds of the input and differs
\* from it at one index, live in the input and tombstoned in the candidate,
\* and no two candidates differ from the input at the same index
C18_SingleDiscardYieldsUpToTen ==
    \A indices \in Shuffles(Len(cur.record)) :
        LET yielded == delete_elements(cur, indices)
            L == Cardinality(live(cur.record))
        IN  /\ Len(yielded) = IF L < 10 THEN L ELSE 10
            /\ \A n \in 1..Len(yielded) :
                  /\ same_frame(yielded[n], cur)
                  /\ Cardinality(changed(yielded[n].record, cur.record)) = 1
                  /\ \A k \in changed(yielded[n].record, cur.record) :
                        /\ k \in live(cur.record)
                        /\ yielded[n].record[k] = TOMBSTONE
            /\ \A n, m \in 1..Len(yielded) :
                  n # m => changed(yielded[n].record, cur.record)
                              # changed(yielded[m].record, cur.record)

\* a record with a tombstone and still more than ten live entries
C18_Witness ==
    /\ tombstones(cur.record) # {}
    /\ Cardinality(live(cur.record)) > 10
    /\ \E indices \in Shuffles(Len(cur.record)) : Len(delete_elements(cur, indices)) = 10

-----------------------------------------------------------------------------
(* Truncation: the driver chains cut_steps and round trips on runs of up to *)
(* LongRun steps, among them runs that broke before their last step.        *)

InitCut ==
    /\ \E class \in { <<push>>, <<pop, push>>, <<peek, push>> },
          ps \in Seeds, ts \in Seeds, n \in 0..LongRun :
          /\ cls = class
          /\ cur = replay(class, produce_template(ps, ts, n)).runner
    /\ orig = cur
    /\ given = cur
    /\ last = "run"
    /\ run = NoFrame
    /\ first = NoFrame
    /\ verdict = "none"
    /\ data = JNull
    /\ parsed = NotParsed
    /\ heap = NoHeap
    /\ registry = NoRegistry

NextCut == CutSteps \/ RoundTrip

SpecCut == InitCut /\ [][NextCut]_vars

\* C19: cut_steps yields first, only when the record is shorter than the
\* step count, the runner with the step count cut to the length of the
\* record; then, for the midpoints m = floor((n_steps + previous) / 2) from
\* previous = 0 until the midpoint repeats, each above the previous one and
\* with 0 < m < n_steps, the runner with step count m and the same record,
\* and the runner with the same step count and the record in which the
\* indices below min(m, length) are tombstoned and the others are kept
C19_TruncateVisitsMidpoints ==
    LET yielded == cut_steps(cur)
        n_steps == cur.n_steps
        len == Len(cur.record)
        pre == IF len < n_steps THEN 1 ELSE 0
        visited == (Len(yielded) - pre) \div 2
        m(j) == IF j = 0 THEN 0 ELSE yielded[pre + 2 * j - 1].n_steps
    IN  /\ Len(yielded) = pre + 2 * visited
        /\ pre = 1 => /\ yielded[1].n_steps = len
                      /\ yielded[1].record = cur.record
        /\ \A j \in 1..visited :
              /\ m(j) = (n_steps + m(j - 1)) \div 2
              /\ m(j - 1) < m(j)
              /\ 0 < m(j)
              /\ m(j) < n_steps
              /\ yielded[pre + 2 * j - 1].record = cur.record
              /\ yielded[pre + 2 * j].n_steps = n_steps
              /\ Len(yielded[pre + 2 * j].record) = len
              /\ \A k \in 1..len :
                    yielded[pre + 2 * j].record[k] =
                        IF k <= m(j) THEN TOMBSTONE ELSE cur.record[k]
        /\ (n_steps + m(visited)) \div 2 = m(visited)

\* a run that broke early, cut and then cut again: the record is shorter
\* than the step count, a midpoint lies past the end of the record and
\* another inside it, before a live entry
C19_Witness ==
    /\ cur.n_steps < orig.n_steps
    /\ 0 < Len(cur.record)
    /\ Len(cur.record) < cur.n_steps
    /\ Len(midpoints(cur.n_steps, 0)) > 2
    /\ \E j \in 1..Len(midpoints(cur.n_steps, 0)) :
          midpoints(cur.n_steps, 0)[j] > Len(cur.record)
    /\ \E j \in 1..Len(midpoints(cur.n_steps, 0)) :
          /\ midpoints(cur.n_steps, 0)[j] < Len(cur.record)
          /\ cur.record[midpoints(cur.n_steps, 0)[j] + 1] # TOMBSTONE

-----------------------------------------------------------------------------
(* Claims about the order of the moves, checked under SpecMoves             *)

\* the wrapped moves among the moves yielded for a template
wrapped(template) == SubSeq(simplifiers(template), 4, Len(simplifiers(template)))

\* the strategy under which the payload at 0-based index i of the current
\* runner was produced: the one the original run recorded there
producing(i) == orig.record[i + 1].strategy

\* the moves strategy offers for a payload
offers(strategy, payload) ==
    Range(strategy_simplifiers(strategy, strategy_from_basic(strategy, payload).template))

\* the order of what simplifiers yields: the three moves on the whole
\* record, then wrapped moves only, by ascending index, each for a live index
whole_record_moves_first ==
    /\ Len(simplifiers(cur)) >= 3
    /\ simplifiers(cur)[1].name = "cut_steps"
    /\ simplifiers(cur)[2].name = "random_discards"
    /\ simplifiers(cur)[3].name = "delete_elements"
    /\ \A n \in 1..Len(wrapped(cur)) :
          /\ wrapped(cur)[n].name = "convert_simplifier"
          /\ wrapped(cur)[n].i + 1 \in live(cur.record)
          /\ \A m \in 1..(n - 1) : wrapped(cur)[m].i <= wrapped(cur)[n].i

\* C20 as stated: the moves are yielded in that order, and every live index
\* is delegated: for each, the moves its producing strategy offers for the
\* payload are yielded, wrapped for that index
C20_EveryLiveIndexDelegated ==
    /\ whole_record_moves_first
    /\ \A k \in live(cur.record) :
          \A simplifier \in offers(producing(k - 1), cur.record[k].data) :
              \E n \in 1..Len(wrapped(cur)) :
                  wrapped(cur)[n] =
                      Move("convert_simplifier", producing(k - 1), simplifier, k - 1)

\* C20, amended: the moves are yielded in that order, and the live indices
\* delegated are those whose entry holds the strategy that produced it:
\* for each of these the moves that strategy offers for the payload are
\* yielded; an entry read back from the canonical form holds no strategy
\* until a replay stores one, and no move is yielded for it
C20_LiveIndicesWithStrategyDelegated ==
    /\ whole_record_moves_first
    /\ \A n \in 1..Len(wrapped(cur)) :
          /\ wrapped(cur)[n].strategy = cur.record[wrapped(cur)[n].i + 1].strategy
          /\ wrapped(cur)[n].strategy # NoStrategy
          /\ wrapped(cur)[n].simplifier
                \in offers(wrapped(cur)[n].strategy, cur.record[wrapped(cur)[n].i + 1].data)
    /\ \A k \in live(cur.record) :
          cur.record[k].strategy # NoStrategy =>
              \A simplifier \in offers(cur.record[k].strategy, cur.record[k].data) :
                  \E n \in 1..Len(wrapped(cur)) :
                      wrapped(cur)[n] =
                          Move("convert_simplifier", cur.record[k].strategy, simplifier, k - 1)

\* a runner with a tombstone below a live index for which a wrapped move is
\* yielded
C20_Witness ==
    /\ cur # orig
    /\ Len(wrapped(cur)) > 0
    /\ \E k \in tombstones(cur.record) : k < wrapped(cur)[1].i + 1
    /\ \E k \in live(cur.record) : k < wrapped(cur)[1].i + 1

-----------------------------------------------------------------------------
(* Claims about the record during a replay, checked under Spec              *)

\* the replay under way started from the record in given
FromGiven == run.pc # "idle" /\ last # "mutated"

\* the index of the last pass the loop began
LastIndex == EventsOf(run, "steps")[Len(EventsOf(run, "steps"))].i

\* the pass at index i came to report or execute its step
Handled(i) == \E n \in 1..Len(run.events) :
                  run.events[n].i = i /\ run.events[n].ev \in {"print", "exec"}

Max(a, b) == IF a > b THEN a ELSE b

\* every step reported or executed is held by the record at its index, as
\* the entry of the strategy and the payload that reify to it
StoredBeforeUse ==
    \A n \in 1..Len(run.events) :
        run.events[n].ev \in {"print", "exec"} =>
            LET i == run.events[n].i
            IN  /\ i < Len(cur.record)
                /\ cur.record[i + 1] # TOMBSTONE
                /\ strategy_from_basic(cur.record[i + 1].strategy,
                                       cur.record[i + 1].data).ok
                /\ reify(cur.record[i + 1].strategy,
                         strategy_from_basic(cur.record[i + 1].strategy,
                                             cur.record[i + 1].data).template)
                      = run.events[n].step

\* a replay that completed left a record of max(initial length, n_steps)
CompleteLength ==
    (run.pc = "done" /\ run.exc = "none") =>
        Len(cur.record) = Max(Len(given.record), cur.n_steps)

\* C21 as stated: the entry of index i is in the record before the step is
\* reported or executed, and once the replay has reached index k the record
\* has max(initial length, k + 1) entries
C21_LengthAfterReaching ==
    FromGiven =>
        /\ StoredBeforeUse
        /\ CompleteLength
        /\ EventsOf(run, "steps") # <<>> =>
              Len(cur.record) = Max(Len(given.record), LastIndex + 1)

\* C21, amended: the entry of index i is in the record before the step is
\* reported or executed, and once the replay has reached index k the record
\* has max(initial length, k + 1) entries, unless steps() raised
\* InvalidDefinition at k: then nothing was stored at k and the record has
\* max(initial length, k) entries
C21_StoredBeforeReportAndExecute ==
    FromGiven =>
        /\ StoredBeforeUse
        /\ CompleteLength
        /\ EventsOf(run, "steps") # <<>> =>
              IF Handled(LastIndex) \/ is_tombstone(cur, LastIndex)
              THEN Len(cur.record) = Max(Len(given.record), LastIndex + 1)
              ELSE /\ run.exc = "InvalidDefinition"
                   /\ Len(cur.record) = Max(Len(given.record), LastIndex)

\* execute_step raised at an index past the end of the initial record, after
\* an entry of the initial record was overwritten: the record holds both
C21_Witness ==
    /\ FromGiven
    /\ run.exc = "AssertionError"
    /\ Len(given.record) >= 1
    /\ LastIndex >= Len(given.record)
    /\ Len(cur.record) = LastIndex + 1
    /\ given.record[1] # TOMBSTONE
    /\ cur.record[1] # given.record[1]

\* the 1-based positions of the entries of a runner at indices >= n_steps
Beyond(r) == { k \in 1..Len(r.record) : k > r.n_steps }

\* C22: the record may be longer than n_steps; run begins no pass at an
\* index >= n_steps, so it reads, reports and executes none of these entries,
\* and leaves them as they were; the candidates of cut_steps with a smaller
\* step count keep the whole record, and to_basic writes every entry, so
\* that from_basic reads the entries back whatever the step count
C22_EntriesBeyondStepCountKept ==
    /\ \A n \in 1..Len(run.events) :
          run.events[n].ev # "teardown" => run.events[n].i < cur.n_steps
    /\ FromGiven =>
          /\ Beyond(cur) = Beyond(given)
          /\ \A k \in Beyond(cur) : cur.record[k] = given.record[k]
    /\ \A n \in 1..Len(cut_steps(cur)) :
          cut_steps(cur)[n].n_steps < cur.n_steps =>
              cut_steps(cur)[n].record = cur.record
    /\ Len(to_basic(cur).items[4].items) = Len(cur.record)
    /\ from_basic(to_basic(cur)).outcome = "ok"
    /\ Len(from_basic(to_basic(cur)).runner.record) = Len(cur.record)
    /\ \A k \in Beyond(cur) :
          /\ (cur.record[k] = TOMBSTONE)
                <=> (from_basic(to_basic(cur)).runner.record[k] = TOMBSTONE)
          /\ from_basic(to_basic(cur)).runner.record[k].data = cur.record[k].data

\* a replay has executed every index below n_steps and returned, and the
\* record holds a live entry at an index >= n_steps
C22_Witness ==
    /\ run.pc = "done"
    /\ run.exc = "none"
    /\ Len(Executed(run)) >= 1
    /\ Len(Executed(run)) = cur.n_steps
    /\ \E k \in Beyond(cur) : cur.record[k] # TOMBSTONE

\* the loop is about to pass over an index that holds a stored payload, and
\* steps() has a strategy to offer
AtStored ==
    /\ run.pc = "loop"
    /\ run.i < cur.n_steps
    /\ run.i < Len(cur.record)
    /\ cur.record[run.i + 1] # TOMBSTONE
    /\ ~ steps(run.machine).raised

\* the strategy steps() offers now, and what it makes of the stored payload
Current == steps(run.machine).strategy
Read == strategy_from_basic(Current, cur.record[run.i + 1].data)

\* the template drawn afresh at the index
Drawn ==
    draw_template(Current, templates_at(cur.templates, run.i),
                  draw_parameter(Current, cur.parameter_seed))

\* the events of the pass just made
Pass == SubSeq(run'.events, Len(run.events) + 1, Len(run'.events))

\* C23: when the payload stored at a live index is BadData for the current
\* strategy the pass does not raise BadData: it draws afresh with the
\* parameter seed and the seed of the index, stores the current strategy
\* with the drawn template at the index and goes on with the drawn step;
\* when the payload is accepted nothing is drawn and the step is the stored
\* one
C23_BadDataFallsBackToFreshDraw ==
    [][AtStored =>
        LET template == IF Read.ok THEN Read.template ELSE Drawn
            draws == SelectSeq(Pass, LAMBDA e : e.ev = "draw")
            uses == SelectSeq(Pass, LAMBDA e : e.ev \in {"print", "exec"})
        IN  /\ run'.exc \in {"none", "AssertionError", "UnsatisfiedAssumption",
                             "ReportError"}
            /\ draws = IF Read.ok THEN <<>>
                       ELSE << Event("draw", run.i, NoStep, cur.parameter_seed,
                                     templates_at(cur.templates, run.i)) >>
            /\ cur'.record = [cur.record EXCEPT ![run.i + 1] =
                                 Entry(Current, strategy_to_basic(Current, template))]
            /\ uses # <<>>
            /\ \A n \in 1..Len(uses) : uses[n].step = reify(Current, template)
            /\ run'.exc = "none" => uses[Len(uses)].ev = "exec"]_vars

\* a replay drew afresh at an index whose stored payload the strategy did
\* not accept, executed the drawn step and went on
C23_Witness ==
    /\ FromGiven
    /\ run.pc = "loop"
    /\ \E n \in 1..Len(run.events) :
          /\ run.events[n].ev = "draw"
          /\ run.events[n].i < Len(given.record)
          /\ given.record[run.events[n].i + 1] # TOMBSTONE
          /\ given.record[run.events[n].i + 1].data # cur.record[run.events[n].i + 1].data
          /\ \E m \in 1..Len(run.events) :
                run.events[m].ev = "exec" /\ run.events[m].i = run.events[n].i

\* the number of steps reported among the first n events of the replay
Reported(n) == Len(SelectSeq(SubSeq(run.events, 1, n), LAMBDA e : e.ev = "print"))

\* C24: with print_steps set, every step executed was reported by print_step
\* in the event just before, with the same value, and every step reported is
\* executed next unless the report raised; the k-th report of a run carries
\* the number k, whatever the index of the step; without print_steps
\* print_step is not called
C24_ReportedOnceJustBeforeExecution ==
    \A n \in 1..Len(run.events) :
        /\ run.events[n].ev = "print" =>
              /\ run.print_steps
              /\ run.events[n].a = Reported(n)
              /\ IF n < Len(run.events) /\ run.events[n + 1].ev # "teardown"
                 THEN /\ run.events[n + 1].ev = "exec"
                      /\ run.events[n + 1].i = run.events[n].i
                 ELSE run.exc = "ReportError"
        /\ (run.events[n].ev = "exec" /\ run.print_steps) =>
              /\ n > 1
              /\ run.events[n - 1].ev = "print"
              /\ run.events[n - 1].i = run.events[n].i
              /\ run.events[n - 1].step = run.events[n].step
              /\ Reported(n) = Len(SelectSeq(SubSeq(run.events, 1, n),
                                             LAMBDA e : e.ev = "exec"))

\* a replay with print_steps passed a tombstoned index and reported and
\* executed two later steps, the second as number 2 at index 2
C24_Witness ==
    /\ run.print_steps
    /\ is_tombstone(cur, 0)
    /\ \E n \in 1..Len(run.events) :
          /\ run.events[n].ev = "exec"
          /\ run.events[n].i = 2
          /\ run.events[n - 1].a = 2

-----------------------------------------------------------------------------
(* Claims about handles and bundles, checked under SpecMachine              *)

\* the step the last call of execute_step was given
ExecutedStep == first'.events[1].step

\* the bundles named in a list of targets
Targeted(targets) == { targets[k] : k \in 1..Len(targets) }

\* how often a bundle is named in a list of targets
Times(targets, b) == Cardinality({ k \in 1..Len(targets) : targets[k] = b })

\* execute_step returned normally from a rule with targets: one handle was
\* allocated, above every handle allocated before, and the result recorded
\* under it
AllocatesOne ==
    /\ run'.machine.name_counter = run.machine.name_counter + 1
    /\ Len(run.machine.names_to_values) < run.machine.name_counter
    /\ Len(run'.machine.names_to_values) = run.machine.name_counter
    /\ \A h \in 1..Len(run.machine.names_to_values) :
          run'.machine.names_to_values[h] = run.machine.names_to_values[h]

\* execute_step of a rule without targets, or one that raised: counter,
\* handle table and bundles are as before
AllocatesNone ==
    /\ run'.machine.name_counter = run.machine.name_counter
    /\ run'.machine.names_to_values = run.machine.names_to_values
    /\ run'.machine.bundles = run.machine.bundles
    /\ run'.machine.keys = run.machine.keys

\* C25 as stated: a rule with targets that returns allocates one new handle
\* and appends it once to every bundle it names; otherwise nothing is
\* allocated and no bundle changes
C25_HandleOncePerBundle ==
    [][last' = "execute_step" =>
        IF verdict' = "none" /\ ExecutedStep.rule.targets # <<>>
        THEN /\ AllocatesOne
             /\ \A b \in BundleNames :
                   run'.machine.bundles[b] =
                       IF b \in Targeted(ExecutedStep.rule.targets)
                       THEN Append(run.machine.bundles[b], run.machine.name_counter)
                       ELSE run.machine.bundles[b]
        ELSE AllocatesNone]_vars

\* C25, amended: a rule with targets that returns allocates one new handle
\* and appends it to the bundles of its targets, once for each time the
\* bundle is named in the targets; otherwise nothing is allocated and no
\* bundle changes
C25_HandleOncePerTarget ==
    [][last' = "execute_step" =>
        IF verdict' = "none" /\ ExecutedStep.rule.targets # <<>>
        THEN /\ AllocatesOne
             /\ \A b \in BundleNames :
                   run'.machine.bundles[b] =
                       run.machine.bundles[b]
                       \o [k \in 1..Times(ExecutedStep.rule.targets, b) |->
                              run.machine.name_counter]
        ELSE AllocatesNone]_vars

\* the second handle of an instance was allocated by the last call, after a
\* call of a rule without targets allocated none
C25_Witness ==
    /\ last = "execute_step"
    /\ verdict = "none"
    /\ first.events[1].step.rule.targets # <<>>
    /\ run.machine.name_counter = 3
    /\ run.i = 3
    /\ \E b \in BundleNames : Len(run.machine.bundles[b]) >= 2

\* C26: over any calls of steps() and execute_step on an instance every
\* bundle keeps its elements in their places and only grows at its end,
\* every handle in a bundle is in the handle table, where it keeps the
\* result stored when it was allocated, and every bundle argument of every
\* step of the strategy steps() returned is a handle of the table
C26_BundlesAppendOnlyAndResolve ==
    [][/\ \A b \in BundleNames :
            /\ Len(run.machine.bundles[b]) <= Len(run'.machine.bundles[b])
            /\ \A k \in 1..Len(run.machine.bundles[b]) :
                  run'.machine.bundles[b][k] = run.machine.bundles[b][k]
            /\ \A k \in 1..Len(run'.machine.bundles[b]) :
                  run'.machine.bundles[b][k] \in 1..Len(run'.machine.names_to_values)
       /\ \A h \in 1..Len(run.machine.names_to_values) :
             /\ h <= Len(run'.machine.names_to_values)
             /\ run'.machine.names_to_values[h] = run.machine.names_to_values[h]
       /\ (last' = "execute_step"
              /\ Len(run'.machine.names_to_values) > Len(run.machine.names_to_values)) =>
             run'.machine.names_to_values[Len(run'.machine.names_to_values)] =
                 IF ExecutedStep.rule.function = "push" THEN run'.machine.counter ELSE 0
       /\ given' # NoStrategy =>
             \A t \in templates_of(given') :
                 \A k \in 1..Len(reify(given', t).data) :
                     reify(given', t).data[k] \in 1..Len(run'.machine.names_to_values)]_vars

\* pop was executed with the handle of a value pushed two calls before and
\* got that value from the table: it raised on it
C26_Witness ==
    /\ last = "execute_step"
    /\ verdict = "AssertionError"
    /\ first.events[1].step.rule.function = "pop"
    /\ Len(run.machine.names_to_values) >= 2
    /\ Len(run.machine.bundles["b"]) >= 2
    /\ run.machine.names_to_values[1] # run.machine.names_to_values[2]

-----------------------------------------------------------------------------
(* The rule lists of the types: rules() and define_rule are called on the   *)
(* types of the process in any order.                                       *)

\* the rules defined by explicit calls of define_rule
Explicit == {reject, move}

InitRules ==
    /\ registry = NoRegistry
    /\ cls \in Types
    /\ given = NoStrategy
    /\ last = "none"
    /\ cur = NoRunner
    /\ orig = NoRunner
    /\ run = NoFrame
    /\ first = NoFrame
    /\ verdict = "none"
    /\ data = JNull
    /\ parsed = NotParsed
    /\ heap = NoHeap

\* T.rules() is called: given is the list returned
AccessRules ==
    /\ \E T \in Types :
          /\ cls' = T
          /\ registry' = class_rules(registry, T).registry
          /\ given' = class_rules(registry, T).result
    /\ last' = "rules"
    /\ UNCHANGED <<heap, cur, orig, run, first, verdict, data, parsed>>

\* T.define_rule(...) is called
DefineRule ==
    /\ \E T \in Types, r \in Explicit :
          /\ Len(registry.rules_per_class[T]) + Len(registry.base_rules_per_class[T])
                < MaxSteps
          /\ cls' = T
          /\ registry' = define_rule(registry, T, r)
    /\ last' = "define_rule"
    /\ UNCHANGED <<heap, cur, given, orig, run, first, verdict, data, parsed>>

NextRules == AccessRules \/ DefineRule

SpecRules == InitRules /\ [][NextRules]_vars

\* a type is scanned at most once, and exactly once when its list is
\* cached; the first access caches the rules defined so far followed by the
\* marked members, each once; a later access returns the cached list; a call
\* on one type leaves the lists of the other types alone
ScannedOnceAndSeparate ==
    /\ \A T \in Types :
          /\ registry'.scans[T] = IF T \in registry'.cached THEN 1 ELSE 0
          /\ T \in registry.cached => T \in registry'.cached
          /\ (T \notin registry.cached /\ T \in registry'.cached) =>
                /\ last' = "rules" /\ cls' = T
                /\ registry'.rules_per_class[T] =
                      registry.base_rules_per_class[T] \o members(T)
                /\ given' = registry'.rules_per_class[T]
          /\ T # cls' =>
                /\ registry'.rules_per_class[T] = registry.rules_per_class[T]
                /\ registry'.base_rules_per_class[T] = registry.base_rules_per_class[T]
    /\ (last' = "rules" /\ cls' \in registry.cached) =>
          /\ given' = registry.rules_per_class[cls']
          /\ registry' = registry

\* C27 as stated: the list is built by one scan on the first access, every
\* later access returns it without another scan, the lists of different
\* types are separate, and nothing changes a cached list
C27_CachedListNeverChanges ==
    [][/\ ScannedOnceAndSeparate
       /\ \A T \in registry.cached :
             registry'.rules_per_class[T] = registry.rules_per_class[T]]_vars

\* C27, amended: the list is built by one scan on the first access, every
\* later access returns it without another scan, the lists of different
\* types are separate, and a cached list changes only when define_rule is
\* called on its type: the rule is appended at its end
C27_CachedListOnlyGrowsByDefineRule ==
    [][/\ ScannedOnceAndSeparate
       /\ \A T \in registry.cached :
             IF last' = "define_rule" /\ cls' = T
             THEN /\ Len(registry'.rules_per_class[T])
                        = Len(registry.rules_per_class[T]) + 1
                  /\ SubSeq(registry'.rules_per_class[T], 1,
                            Len(registry.rules_per_class[T]))
                        = registry.rules_per_class[T]
                  /\ registry'.rules_per_class[T][Len(registry'.rules_per_class[T])]
                        \in Explicit
             ELSE registry'.rules_per_class[T] = registry.rules_per_class[T]]_vars

\* both types are cached; A was accessed again after a rule was defined on
\* it: the list returned holds the members once and the new rule after them,
\* and the list of B holds the members of B only
C27_Witness ==
    /\ registry.cached = Types
    /\ last = "rules"
    /\ cls = "A"
    /\ Len(given) = Len(members("A")) + 1
    /\ SubSeq(given, 1, Len(members("A"))) = members("A")
    /\ registry.scans["A"] = 1
    /\ registry.rules_per_class["B"] = members("B")

-----------------------------------------------------------------------------
(* Claims about the runners the strategy builds, checked under SpecMoves    *)

\* C28: the runner produced for the configured step count and replayed, and
\* every runner a chain of shrink moves and of reads of the canonical form
\* leads to, has a step count of 0 to 1,000,000 and at least as many
\* per-index seeds: every index a replay visits has its seed
C28_RunnersSatisfyAssertions ==
    /\ 0 <= cur.n_steps
    /\ cur.n_steps <= 1000000
    /\ cur.templates.len >= cur.n_steps
    /\ runner_asserts(cur)
    /\ \A n \in 1..Len(cut_steps(cur)) : runner_asserts(cut_steps(cur)[n])

\* a runner truncated below the length of its record and read back from the
\* canonical form: its seed list was rebuilt with the smaller step count
C28_Witness ==
    /\ 0 < cur.n_steps
    /\ cur.n_steps < orig.n_steps
    /\ cur.templates.len = cur.n_steps
    /\ cur.n_steps < Len(cur.record)
    /\ \E k \in live(cur.record) : cur.record[k].strategy = NoStrategy

====
